---- MODULE Spec2Model ----
(***************************************************************************)
(* Verification model of the migration safety pipeline of mcpp-plan        *)
(* (backup.py): checksum-verified backup, trial migration on a scratch     *)
(* copy, row-count validation, and only then the live migration.           *)
(*                                                                         *)
(* Files are modelled by their content; a database file's content is the   *)
(* set of tables with their row counts, the added columns, the recorded    *)
(* schema version and SQLite's file change counter.  Table and file names  *)
(* are sequences of characters so that suffix tests and the patch-name     *)
(* pattern are computed as the code computes them.                         *)
(***************************************************************************)
EXTENDS Integers, Sequences, FiniteSets, TLC

\* ------------------------------------------------------------------ bounds

\* Largest row count a table of the initial database may hold.
MaxInitRows == 2

\* Largest version number a caller passes as current_version / latest_version.
MaxVersion == 3

\* Largest number of calls a caller makes one after the other.
MaxCalls == 2

\* Largest row count of a mapping handed to validate_row_counts directly.
MaxCount == 2

\* Largest id a row of context_notes gets.
MaxNoteId == 2
\* Writes another process makes to the live file while one backup is taken.
MaxWrites == 2
\* Rows of the tasks table.
MaxTasks == 2

\* ------------------------------------------------------------- table names

TName == <<"t">>
TNewName == <<"t", "_", "n", "e", "w">>
UName == <<"u">>
SchemaVersionTable ==
    <<"s", "c", "h", "e", "m", "a", "_", "v", "e", "r", "s", "i", "o", "n">>

\* The user tables a database of the model may hold besides schema_version.
Tables == {TName, TNewName, UName}

\* str.endswith(suffix)
EndsWith(s, suffix) ==
    /\ Len(s) >= Len(suffix)
    /\ SubSeq(s, Len(s) - Len(suffix) + 1, Len(s)) = suffix

ScratchSuffix == <<"_", "n", "e", "w">>

\* ------------------------------------------------------- database content

\* The order in which the test databases create their tables.
NameOrder == <<TName, TNewName, UName, SchemaVersionTable>>

\* ------------------------------------------ the rows of context_notes

\* None for an id or a name.
NoId == 0
NoName == ""

\* A row of contexts, within one project.
ContextRow(id, name) == [id |-> id, name |-> name]

\* The context a database begins with.
InitContexts == {ContextRow(1, "source-task")}

ContextIds(db) == {c.id : c \in db.contexts}

NoteRow(id, context_id, note_md, kind) ==
    [id |-> id, context_id |-> context_id, note_md |-> note_md, kind |-> kind]

\* The part of the database the notes functions read and write: the rows of
\* contexts and of context_notes, whether the id column is declared
\* AUTOINCREMENT in schema.sql (ids are then never given twice), and the
\* largest note id ever given, which SQLite records in that case only
\* (sqlite_sequence; 0 otherwise).
NotesDb(contexts, rows, last_id, autoincrement) ==
    [contexts |-> contexts, context_notes |-> rows, last_id |-> last_id,
     autoincrement |-> autoincrement]

NoteIds(db) == {r.id : r \in db.context_notes}

MaxOf(S) == IF S = {} THEN 0 ELSE CHOOSE v \in S : \A w \in S : w <= v

MinOf(S) == CHOOSE v \in S : \A w \in S : v <= w

\* cur.lastrowid of an INSERT without an id.
NextRowId(db) ==
    IF db.autoincrement THEN db.last_id + 1 ELSE MaxOf(NoteIds(db)) + 1

\* UPDATE context_notes SET note_md = ?, ... WHERE id = ?
UpdateNote(db, id, note_md) ==
    [db EXCEPT !.context_notes =
        {IF r.id = id THEN [r EXCEPT !.note_md = note_md] ELSE r : r \in @}]

\* INSERT INTO context_notes (context_id, note_md, created_at, actor, kind)
InsertNote(db, context_id, note_md, kind) ==
    [db EXCEPT !.context_notes = @ \cup {NoteRow(NextRowId(db), context_id, note_md, kind)},
               !.last_id = IF db.autoincrement THEN NextRowId(db) ELSE @]

\* DELETE FROM context_notes WHERE id = ?
DeleteNote(db, id) ==
    [db EXCEPT !.context_notes = {r \in @ : r.id # id}]

\* How the repository declares the id of context_notes: test_backup.py line
\* 93, id INTEGER PRIMARY KEY AUTOINCREMENT.
NoteIdDeclarations == {TRUE}

\* A database without contexts and notes.
NoNotes == NotesDb({}, {}, 0, TRUE)

\* rows[t] = -1: table t does not exist.  ver = -1: no schema_version table;
\* ver = 0: the table exists and holds no row.  gen: file change counter,
\* advanced by every committed write.  damage: 0 for a well-formed file,
\* 1 for a copy with silently corrupted bytes, 2 for a truncated copy.
\* order: the tables in the order of sqlite_master (creation order).
\* journal: the journal mode the file header records, "delete" as
\* sqlite3.connect leaves it or "wal".  app: what the file holds of the
\* application's schema and data, as far as ensure_schema looks at it.
\* pages[t]: which bytes the row pages of table t hold for their row count;
\* 0 the bytes the file was made with, another number the bytes a later
\* writer left (other rows, or the same rows in other cells).  notes: the
\* rows of contexts and context_notes, as far as ensure_schema looks at them.
MkDb(rows, cols, ver, gen, damage) ==
    [rows |-> rows, cols |-> cols, ver |-> ver, gen |-> gen, damage |-> damage,
     order |-> SelectSeq(NameOrder, LAMBDA t : IF t = SchemaVersionTable THEN ver >= 0
                                               ELSE rows[t] >= 0),
     journal |-> "delete", app |-> {}, pages |-> [t \in Tables |-> 0],
     notes |-> NoNotes]

NoFile == << >>
FileOf(content) == << content >>
Exists(file) == file # NoFile
Content(file) == file[1]

\* sha256_file: the hex digest of a file's bytes, as the sequence of its
\* digits; distinct contents of the model have distinct digests.
sha256_file(content) ==
    << content.rows[TName] + 1, content.rows[TNewName] + 1, content.rows[UName] + 1,
       IF TName \in content.cols THEN 1 ELSE 0,
       IF TNewName \in content.cols THEN 1 ELSE 0,
       IF UName \in content.cols THEN 1 ELSE 0,
       content.ver + 1, content.gen, content.damage,
       content.order, content.journal, content.app, content.pages, content.notes >>

\* A Python dict: its keys in insertion order and the values by key.
Dict(keys, val) == [keys |-> keys, val |-> val]

\* table_row_counts: {table_name: row_count} for every user table, inserted in
\* the order of sqlite_master; the schema_version table is a user table too.
table_row_counts(db) ==
    Dict(db.order,
         [t \in {db.order[i] : i \in 1..Len(db.order)} |->
            IF t = SchemaVersionTable
            THEN (IF db.ver > 0 THEN 1 ELSE 0)
            ELSE db.rows[t]])

\* --------------------------------------------------- row-count validation

MissingError(table, count_before) ==
    [kind |-> "MISSING", table |-> table, before |-> count_before, after |-> -1]

LostRowsError(table, count_before, count_after) ==
    [kind |-> "lost rows", table |-> table, before |-> count_before,
     after |-> count_after]

\* The loop body with the row comparison left out: only a vanished table is
\* reported.
TableErrorsNoLoss(before, after, table) ==
    IF EndsWith(table, ScratchSuffix) THEN << >>
    ELSE IF table \notin DOMAIN after.val
         THEN << MissingError(table, before.val[table]) >>
         ELSE << >>

\* The loop body without the test for the _new suffix.
TableErrorsNoSkip(before, after, table) ==
    IF table \notin DOMAIN after.val
    THEN << MissingError(table, before.val[table]) >>
    ELSE IF after.val[table] < before.val[table]
         THEN << LostRowsError(table, before.val[table], after.val[table]) >>
         ELSE << >>

\* The loop body reporting a vanished table only when it held rows.
TableErrorsMissingWithRows(before, after, table) ==
    IF EndsWith(table, ScratchSuffix) THEN << >>
    ELSE IF table \notin DOMAIN after.val
         THEN (IF before.val[table] > 0 THEN << MissingError(table, before.val[table]) >>
               ELSE << >>)
         ELSE IF after.val[table] < before.val[table]
              THEN << LostRowsError(table, before.val[table], after.val[table]) >>
              ELSE << >>

\* Lines 147-159: the errors validate_row_counts appends for one table of
\* `before`.
TableErrors(before, after, table) ==
    IF EndsWith(table, ScratchSuffix) THEN << >>
    ELSE IF table \notin DOMAIN after.val
         THEN << MissingError(table, before.val[table]) >>
         ELSE IF after.val[table] < before.val[table]
              THEN << LostRowsError(table, before.val[table], after.val[table]) >>
              ELSE << >>

\* Line 146: for table, count_before in before.items(), from the i-th key on.
RECURSIVE ValidateFrom(_, _, _)
ValidateFrom(before, after, i) ==
    IF i > Len(before.keys) THEN << >>
    ELSE TableErrors(before, after, before.keys[i]) \o ValidateFrom(before, after, i + 1)

validate_row_counts(before, after) == ValidateFrom(before, after, 1)

\* The tables an error list names.
NamedTables(errors) == {errors[i].table : i \in 1..Len(errors)}

\* ------------------------------------------------------------ SQL statements

Stmt(op, t, src) == [op |-> op, t |-> t, src |-> src]

AddColumn(t) == Stmt("add_column", t, t)          \* ALTER TABLE t ADD COLUMN extra TEXT
CreateTable(t) == Stmt("create", t, t)            \* CREATE TABLE IF NOT EXISTS t (...)
DropTable(t) == Stmt("drop", t, t)                \* DROP TABLE IF EXISTS t
RenameTable(src, t) == Stmt("rename", t, src)     \* ALTER TABLE src RENAME TO t
CopyRows(src, t) == Stmt("copy", t, src)          \* INSERT INTO t SELECT ... FROM src
InsertRow(t) == Stmt("insert", t, t)              \* INSERT INTO t ... VALUES (...)
DeleteAll(t) == Stmt("delete_all", t, t)          \* DELETE FROM t
BadSelect == Stmt("bad_select", TName, TName)     \* SELECT * FROM completely_fake_table
DeleteRandom(t) == Stmt("delete_random", t, t)    \* DELETE FROM t WHERE random() % 2
InsertRandomKey(t) == Stmt("insert_random_key", t, t)
    \* INSERT INTO t (id, v) VALUES (abs(random()) % 2 + k, ...), key k taken and
    \* k + 1 free: the statement inserts a row or raises sqlite3.IntegrityError

Written(db) == [db EXCEPT !.gen = @ + 1]

\* db.py lines 16-21, connect(), as far as the file goes: PRAGMA
\* journal_mode=WAL rewrites the header of a file in rollback mode and leaves
\* a file in write-ahead mode as it is.
connect(db) == IF db.journal = "wal" THEN db ELSE Written([db EXCEPT !.journal = "wal"])
SqlOk(db) == [ok |-> TRUE, db |-> db]
SqlError(db) == [ok |-> FALSE, db |-> db]

ContextsName == <<"c", "o", "n", "t", "e", "x", "t", "s">>

\* What a database file may hold of the application's schema and data.
AppTables == "tables"                      \* contexts, tasks, changelog, ... exist
TaskNumberCol == "tasks.task_number"
TaskIdCol == "changelog.task_id"
IsDeletedCol == "tasks.is_deleted"
ProjectIdCol == "contexts.project_id"
UserIdCol == "contexts.user_id"
KindCol == "context_notes.kind"
ChangelogIndex == "idx_changelog_task_created"
DeletedIndex == "idx_tasks_context_deleted"
ProjectIndex == "idx_contexts_project"
ProjectNameIndex == "idx_contexts_project_name"
TaskRows == "tasks.rows"                   \* tasks holds rows
TasksNumbered == "tasks.numbered"          \* no row of tasks has a NULL task_number
OrphanContext == "contexts.orphan"         \* a context with user_id IS NULL
OsUser == "users.os"                       \* the users row of the OS user
ActiveContext == "global_state.active"     \* global_state names an active context
ActiveProject == "contexts.active_project" \* the active context has a project_id
OsUserState == "user_state.os"             \* the user_state row of the OS user
\* ------------------------------------------------- the text of a note
\* A text is the sequence of its lines (split at "\n"; a text that ends in a
\* newline has an empty last line).  The lines the model writes:
Blank == ""
GoalHeader == "## Goal"
PlanHeader == "## Plan"
OtherHeader == "## Other"
InlineGoal == "see ## Goal inline"          \* '## Goal' that ends no line
Body == "Ship it"
Migrated == "(migrated from description)"   \* LIKE '(migrated%'

\* The line begins with "## ".
BeginsSection(line) == line \in {GoalHeader, PlanHeader, OtherHeader}

\* The line holds the header somewhere.
LineHolds(line, header) == line = header \/ (header = GoalHeader /\ line = InlineGoal)

\* note_md LIKE '%## Goal%', '%## Plan%'.
Like(text, header) == \E i \in 1..Len(text) : LineHolds(text[i], header)

\* note_md LIKE '(migrated%'.
LikeMigrated(text) == text # << >> /\ text[1] = Migrated

\* The least element of a set of numbers, n when it is empty.
FirstOr(S, n) == IF S = {} THEN n ELSE CHOOSE v \in S : \A w \in S : v <= w

\* db.py lines 191-192, re.search(r'## Goal\s*\n(.*?)(?=\n## |\Z)', text,
\* re.DOTALL): the match begins at the first header that a newline follows
\* (0: no match); \s* passes the blank lines after it; the group begins at the
\* first line that is not blank and ends before the next line after it that
\* begins with "## ", or at the end of the text.
SectionAt(text, header) ==
    FirstOr({i \in 1..(Len(text) - 1) : text[i] = header}, 0)

GroupFrom(text, i) ==
    FirstOr({j \in (i + 1)..Len(text) : text[j] # Blank}, Len(text) + 1)

GroupEnd(text, j) ==
    FirstOr({k \in (j + 1)..Len(text) : BeginsSection(text[k])}, Len(text) + 1)

\* str.strip() of a text: without the blank lines at its ends.
Strip(text) ==
    LET full == {i \in 1..Len(text) : text[i] # Blank}
    IN IF full = {} THEN << >>
       ELSE SubSeq(text, FirstOr(full, 0),
                   CHOOSE v \in full : \A w \in full : w <= v)

\* goal_match.group(1).strip(), << >> without a match or without text.
SectionText(text, header) ==
    LET i == SectionAt(text, header)
        j == GroupFrom(text, i)
    IN IF i = 0 THEN << >> ELSE Strip(SubSeq(text, j, GroupEnd(text, j) - 1))

\* db.py lines 220-221, re.sub(r'## Goal\s*\n.*?(?=\n## |\Z)', '', text):
\* every match gives way to nothing, between the newline before it and the
\* newline before the header that ends it.
RECURSIVE RemoveSections(_, _)
RemoveSections(text, header) ==
    LET i == SectionAt(text, header)
        k == GroupEnd(text, GroupFrom(text, i))
    IN IF i = 0 THEN text
       ELSE SubSeq(text, 1, i - 1) \o << Blank >>
            \o RemoveSections(SubSeq(text, k, Len(text)), header)

\* db.py lines 220-222: the text without its Goal and Plan sections, stripped.
Remainder(text) ==
    Strip(RemoveSections(RemoveSections(text, GoalHeader), PlanHeader))

\* db.py lines 176-179: the rows the backfill selects, in the order of their
\* ids.
RECURSIVE ById(_)
ById(rows) ==
    IF rows = {} THEN << >>
    ELSE LET first == CHOOSE r \in rows : \A q \in rows : r.id <= q.id
         IN << first >> \o ById(rows \ {first})

HeadedNotes(notes) ==
    ById({r \in notes.context_notes :
              r.kind = "note" /\ (Like(r.note_md, GoalHeader) \/ Like(r.note_md, PlanHeader))})

\* db.py lines 202-205 and 214-217: DELETE FROM context_notes WHERE context_id
\* = ? AND kind = ? AND note_md LIKE '(migrated%'.
DeletePlaceholders(notes, context_id, kind) ==
    [notes EXCEPT !.context_notes =
        {r \in @ : ~(r.context_id = context_id /\ r.kind = kind /\ LikeMigrated(r.note_md))}]

LatestColumns == {TaskNumberCol, TaskIdCol, IsDeletedCol, ProjectIdCol, UserIdCol, KindCol}

\* ALTER TABLE ... ADD COLUMN on one of the application's tables.
AddAppColumn(db, col) ==
    IF AppTables \notin db.app \/ col \in db.app THEN SqlError(db)
    ELSE SqlOk(Written([db EXCEPT
            !.app = (@ \cup {col}) \ (IF col = TaskNumberCol THEN {TasksNumbered} ELSE {})]))

\* CREATE [UNIQUE] INDEX IF NOT EXISTS index ON table(columns).
CreateIndex(db, index, columns) ==
    IF index \in db.app THEN SqlOk(db)
    ELSE IF ~(({AppTables} \cup columns) \subseteq db.app) THEN SqlError(db)
    ELSE SqlOk(Written([db EXCEPT !.app = @ \cup {index}]))

\* The possible results of executing one statement in autocommit mode: the
\* statement's effect is committed at once, a failing statement changes nothing.
ExecStmt(db, s) ==
    LET t == s.t
        src == s.src
        has(x) == db.rows[x] >= 0
    IN CASE s.op = "add_column" ->
              IF ~has(t) \/ t \in db.cols THEN {SqlError(db)}
              ELSE {SqlOk(Written([db EXCEPT !.cols = @ \cup {t}]))}
         [] s.op = "create" ->
              IF has(t) THEN {SqlOk(db)}
              ELSE {SqlOk(Written([db EXCEPT !.rows[t] = 0, !.order = Append(@, t)]))}
         [] s.op = "drop" ->
              IF ~has(t) THEN {SqlOk(db)}
              ELSE {SqlOk(Written([db EXCEPT
                        !.rows[t] = -1, !.cols = @ \ {t},
                        !.order = SelectSeq(@, LAMBDA x : x # t)]))}
         [] s.op = "rename" ->
              IF ~has(src) \/ has(t) THEN {SqlError(db)}
              ELSE {SqlOk(Written([db EXCEPT
                        !.rows[t] = db.rows[src], !.rows[src] = -1,
                        !.cols = (@ \ {src}) \cup (IF src \in db.cols THEN {t} ELSE {}),
                        !.order = [i \in DOMAIN @ |-> IF @[i] = src THEN t ELSE @[i]]]))}
         [] s.op = "copy" ->
              IF ~has(src) \/ ~has(t) THEN {SqlError(db)}
              ELSE IF db.rows[src] = 0 THEN {SqlOk(db)}
              ELSE {SqlOk(Written([db EXCEPT !.rows[t] = @ + db.rows[src]]))}
         [] s.op = "insert" ->
              IF ~has(t) THEN {SqlError(db)}
              ELSE {SqlOk(Written([db EXCEPT !.rows[t] = @ + 1]))}
         [] s.op = "delete_all" ->
              IF ~has(t) THEN {SqlError(db)}
              ELSE IF db.rows[t] = 0
                   THEN {SqlOk(IF db.journal = "wal" THEN db ELSE Written(db))}
              ELSE {SqlOk(Written([db EXCEPT !.rows[t] = 0]))}
         [] s.op = "delete_random" ->
              IF ~has(t) THEN {SqlError(db)}
              ELSE {SqlOk(IF k = db.rows[t] THEN db
                          ELSE Written([db EXCEPT !.rows[t] = k])) : k \in 0..db.rows[t]}
         [] s.op = "insert_random_key" ->
              IF ~has(t) THEN {SqlError(db)}
              ELSE {SqlError(db), SqlOk(Written([db EXCEPT !.rows[t] = @ + 1]))}
         [] s.op = "create_app" ->
              IF AppTables \in db.app THEN {SqlOk(db)}
              ELSE {SqlOk(Written([db EXCEPT !.app = @ \cup {AppTables} \cup LatestColumns]))}
         [] s.op = "create_version" ->
              IF db.ver >= 0 THEN {SqlOk(db)}
              ELSE {SqlOk(Written([db EXCEPT !.ver = 0,
                                             !.order = Append(@, SchemaVersionTable)]))}
         [] s.op = "add_project_id" -> {AddAppColumn(db, ProjectIdCol)}
         [] OTHER -> {SqlError(db)}

\* INSERT OR REPLACE INTO schema_version (id, version, updated_at) VALUES (1, ?, ?)
SetSchemaVersion(db, version) ==
    IF db.ver < 0 THEN SqlError(db)
    ELSE SqlOk(Written([db EXCEPT !.ver = version]))

\* --------------------------------------------------------------- patch files

Digits == <<"0", "1", "2", "3", "4", "5", "6", "7", "8", "9">>
IsDigit(c) == \E d \in 1..10 : Digits[d] = c
DigitValue(c) == (CHOOSE d \in 1..10 : Digits[d] = c) - 1

PatchPrefix == <<"p", "a", "t", "c", "h", "-">>
SqlSuffix == <<".", "s", "q", "l">>

StartsWith(s, prefix) ==
    /\ Len(s) >= Len(prefix)
    /\ SubSeq(s, 1, Len(prefix)) = prefix

\* patches_dir.glob("patch-*.sql")
GlobMatches(name) ==
    /\ Len(name) >= Len(PatchPrefix) + Len(SqlSuffix)
    /\ StartsWith(name, PatchPrefix)
    /\ EndsWith(name, SqlSuffix)

\* The length of the longest run of digits of name that starts at position i.
RECURSIVE DigitRun(_, _)
DigitRun(name, i) ==
    IF i <= Len(name) /\ IsDigit(name[i]) THEN 1 + DigitRun(name, i + 1) ELSE 0

\* int(): the value of a sequence of decimal digits.
RECURSIVE IntOf(_)
IntOf(digits) ==
    IF digits = << >> THEN 0
    ELSE 10 * IntOf(SubSeq(digits, 1, Len(digits) - 1)) + DigitValue(digits[Len(digits)])

\* re.match(r"patch-(\d+)\.sql", name): 0 when the name does not match, the
\* captured number otherwise.  The pattern is anchored at the start only.
PatchVersion(name) ==
    LET first == Len(PatchPrefix) + 1
        n == DigitRun(name, first)
    IN IF /\ StartsWith(name, PatchPrefix)
          /\ n >= 1
          /\ Len(name) >= first + n + Len(SqlSuffix) - 1
          /\ SubSeq(name, first + n, first + n + Len(SqlSuffix) - 1) = SqlSuffix
       THEN IntOf(SubSeq(name, first, first + n - 1))
       ELSE 0

NameMatches(name) ==
    LET first == Len(PatchPrefix) + 1
        n == DigitRun(name, first)
    IN /\ StartsWith(name, PatchPrefix)
       /\ n >= 1
       /\ Len(name) >= first + n + Len(SqlSuffix) - 1
       /\ SubSeq(name, first + n, first + n + Len(SqlSuffix) - 1) = SqlSuffix

\* Character order of the characters patch file names are written with.
CharOrder == <<"-", ".", "0", "1", "2", "3", "4", "5", "6", "7", "8", "9",
               "a", "c", "e", "h", "l", "n", "o", "p", "q", "s", "t", "x">>
CharCode(c) == CHOOSE i \in 1..Len(CharOrder) : CharOrder[i] = c

\* a < b for two file names (str comparison).
RECURSIVE NameLess(_, _)
NameLess(a, b) ==
    IF a = << >> THEN b # << >>
    ELSE IF b = << >> THEN FALSE
    ELSE IF a[1] = b[1] THEN NameLess(Tail(a), Tail(b))
    ELSE CharCode(a[1]) < CharCode(b[1])

PatchFile(name, script) == [name |-> name, script |-> script]

\* (version, path) < (version, path)
PatchLess(f, g) ==
    \/ PatchVersion(f.name) < PatchVersion(g.name)
    \/ PatchVersion(f.name) = PatchVersion(g.name) /\ NameLess(f.name, g.name)

\* sorted(patches) over the files that pass the glob and the pattern.
RECURSIVE SortPatches(_)
SortPatches(files) ==
    IF files = {} THEN << >>
    ELSE LET least == CHOOSE f \in files : \A g \in files \ {f} : PatchLess(f, g)
         IN << least >> \o SortPatches(files \ {least})

DiscoverPatches(files) ==
    SortPatches({f \in files : GlobMatches(f.name) /\ NameMatches(f.name)})

\* The filter without its upper limit: every patch above current_version runs.
EligibleNoUpper(version, current_version, latest_version) ==
    ~(version <= current_version)

\* if version <= current_version: continue; if version > latest_version: continue
Eligible(version, current_version, latest_version) ==
    /\ ~(version <= current_version)
    /\ ~(version > latest_version)

\* ------------------------------------------------- patch directories (input)

Patch2 == PatchPrefix \o <<"2">> \o SqlSuffix                 \* patch-2.sql
Patch3 == PatchPrefix \o <<"3">> \o SqlSuffix                 \* patch-3.sql
Patch02 == PatchPrefix \o <<"0", "2">> \o SqlSuffix           \* patch-02.sql
PatchX == PatchPrefix \o <<"x">> \o SqlSuffix                 \* patch-x.sql
NotesSql == <<"n", "o", "t", "e", "s">> \o SqlSuffix          \* notes.sql
Patch3SqlSql == PatchPrefix \o <<"3">> \o SqlSuffix \o SqlSuffix \* patch-3.sql.sql

BenignScript == << AddColumn(TName) >>
DestructiveScript ==
    << CreateTable(TNewName), DropTable(TName), RenameTable(TNewName, TName) >>
CarefulScript ==
    << CreateTable(TNewName), CopyRows(TName, TNewName), DropTable(TName),
       RenameTable(TNewName, TName) >>
SqlErrorScript == << AddColumn(TName), BadSelect >>
FlakyScript == << InsertRow(TName), InsertRandomKey(TName) >>
RandomDeleteScript == << DeleteRandom(UName) >>

\* The patch directories safe_migrate is run with.
PatchDirs ==
    { {},
      {PatchFile(Patch2, BenignScript)},
      {PatchFile(Patch2, DestructiveScript)},
      {PatchFile(Patch2, CarefulScript)},
      {PatchFile(Patch2, SqlErrorScript)},
      {PatchFile(Patch2, FlakyScript)},
      {PatchFile(Patch2, << DropTable(TNewName) >>)},
      {PatchFile(Patch2, << DeleteAll(UName) >>)},
      {PatchFile(Patch3, RandomDeleteScript)},
      {PatchFile(Patch2, BenignScript), PatchFile(Patch3, << InsertRow(UName), BadSelect >>)},
      {PatchFile(Patch2, << DeleteAll(TName) >>),
       PatchFile(Patch3, << InsertRow(TName), InsertRow(TName) >>)},
      {PatchFile(Patch2, << >>), PatchFile(Patch02, << InsertRow(UName) >>),
       PatchFile(PatchX, << BadSelect >>), PatchFile(NotesSql, << BadSelect >>)},
      {PatchFile(Patch2, BenignScript), PatchFile(Patch3SqlSql, << InsertRow(UName) >>)} }

\* ------------------------------------------------------------------- state

VARIABLES
    disk,         \* live: the database file; tmp: the scratch copy; backups: the
                  \* files of .backups by letter slot; backup_dir: .backups exists
    patches_dir,  \* [exists, files]: the patch directory
    pc,           \* position in safe_migrate / create_verified_backup / the applier
    args,         \* [current_version, latest_version]
    loc,          \* local variables of safe_migrate and create_verified_backup
    ap,           \* local variables of _apply_patches_to and the connection it has
    conns,        \* per connection: "closed", or foreign-key enforcement "off" / "on"
    outcome,      \* what the call handed to its caller
    hist          \* history: what has been done to the live database so far

vars == <<disk, patches_dir, pc, args, loc, ap, conns, outcome, hist>>

\* string.ascii_lowercase
AsciiLowercase ==
    <<"a", "b", "c", "d", "e", "f", "g", "h", "i", "j", "k", "l", "m",
      "n", "o", "p", "q", "r", "s", "t", "u", "v", "w", "x", "y", "z">>
Slots == 1..Len(AsciiLowercase)

EmptyCounts == Dict(<< >>, [t \in {} |-> 0])

\* ---------------------------------------------------------------- outcomes

Outcome(kind, head, not_touched, errors, backup) ==
    [kind |-> kind, head |-> head, not_touched |-> not_touched,
     errors |-> errors, backup |-> backup]

NoOutcome == Outcome("none", "", FALSE, << >>, 0)
Success(backup_path) == Outcome("success", "", FALSE, << >>, backup_path)
RuntimeError(head) == Outcome("RuntimeError", head, FALSE, << >>, 0)
\* An exception of the standard library that backup.py does not catch.
RawError(kind) == Outcome(kind, "", FALSE, << >>, 0)

\* "No migration needed - already at latest version"
NoMigrationNeeded ==
    Outcome("MigrationAborted", "No migration needed", FALSE, << >>, 0)

\* "Trial migration FAILED - SQL error on copy: ... Live database NOT touched.
\*  Backup at: {backup_path}"
TrialSqlAbort(backup_path) ==
    Outcome("MigrationAborted", "Trial migration FAILED - SQL error on copy",
            TRUE, << >>, backup_path)

\* "Trial migration FAILED - data loss detected on copy: {errors}. Live database
\*  NOT touched.  Backup at: {backup_path}"
TrialLossAbort(errors, backup_path) ==
    Outcome("MigrationAborted", "Trial migration FAILED - data loss detected on copy",
            TRUE, errors, backup_path)

\* The live abort written with the trial's sentence about the live database.
LiveLossAbortNotTouched(errors, backup_path) ==
    Outcome("MigrationAborted", "Live migration FAILED validation - data loss detected",
            TRUE, errors, backup_path)

\* "Live migration FAILED validation - data loss detected: {errors}. Backup
\*  available at: {backup_path}"
LiveLossAbort(errors, backup_path) ==
    Outcome("MigrationAborted", "Live migration FAILED validation - data loss detected",
            FALSE, errors, backup_path)

\* ------------------------------------------------------------ initial states

InitDbs ==
    { MkDb([t \in Tables |-> IF t = TName THEN n
                             ELSE IF t = TNewName THEN m ELSE 1],
           {}, 1, 0, 0) : n \in 0..MaxInitRows, m \in {-1, 1} }
    \cup
    \* a legacy database without a schema_version table
    { MkDb([t \in Tables |-> IF t = TNewName THEN -1 ELSE 1], {}, -1, 0, 0) }
    \cup
    \* databases whose tables were created in another order
    { [MkDb([t \in Tables |-> IF t = TNewName THEN -1 ELSE 1], {}, 1, 0, 0)
          EXCEPT !.order = order] :
        order \in { <<UName, TName, SchemaVersionTable>>,
                    <<SchemaVersionTable, TName, UName>> } }
    \cup
    \* a database an earlier connection switched to write-ahead logging
    { [MkDb([t \in Tables |-> IF t = TName THEN 0
                              ELSE IF t = TNewName THEN -1 ELSE 1], {}, 1, 0, 0)
          EXCEPT !.journal = "wal"] }

\* A backup kept from an earlier run.
OldBackup == FileOf(MkDb([t \in Tables |-> IF t = TNewName THEN -1 ELSE 0], {}, 1, 0, 0))

InitBackups ==
    { [dir |-> FALSE, files |-> [i \in Slots |-> NoFile]],
      [dir |-> TRUE, files |-> [i \in Slots |-> IF i = 1 THEN OldBackup ELSE NoFile]],
      [dir |-> TRUE, files |-> [i \in Slots |-> IF i \in {1, 3} THEN OldBackup ELSE NoFile]],
      [dir |-> TRUE, files |-> [i \in Slots |-> IF i < Len(AsciiLowercase)
                                                 THEN OldBackup ELSE NoFile]],
      [dir |-> TRUE, files |-> [i \in Slots |-> OldBackup]] }

InitLoc ==
    [candidate |-> 0, backup_path |-> 0, live_hash |-> << >>,
     pre_counts |-> EmptyCounts, post_counts |-> EmptyCounts,
     post_live_counts |-> EmptyCounts, rows |-> << >>]

InitAp == [conn |-> "none", todo |-> << >>, idx |-> 0, cur |-> 0]

\* The history kept of one call: how the call found the disk, what it did to
\* the live database; and of the calls before it: how many there were, how the
\* last one ended, and the backups that were returned (slot and content).
InitHist(d) ==
    [live_before |-> d.live, disk_before |-> d, live_exec |-> 0, live_applies |-> 0,
     verified |-> 0, snapshots |-> 0,
     trial_patched |-> FALSE, trial_validated |-> FALSE, trial_errors |-> << >>,
     calls |-> 1, prev |-> "none", returned |-> << >>, ran |-> << >>,
     raised |-> << >>]

\* A patch file handed to executescript on a connection, with the database as
\* it was just before.
Ran(conn, name, before) == [conn |-> conn, name |-> name, before |-> before]

Returned(slot, file) == [slot |-> slot, file |-> file]

Init ==
    /\ \E db \in InitDbs, b \in InitBackups, present \in BOOLEAN :
            disk = [live |-> IF present THEN FileOf(db) ELSE NoFile, tmp |-> NoFile,
                    backups |-> b.files, backup_dir |-> b.dir]
    /\ \E d \in PatchDirs, present \in BOOLEAN :
            patches_dir = [exists |-> present, files |-> IF present THEN d ELSE {}]
    /\ \E c \in 1..MaxVersion, l \in 1..MaxVersion :
            args = [call |-> "safe_migrate", current_version |-> c, latest_version |-> l]
    /\ pc = "safe_migrate"
    /\ loc = InitLoc
    /\ ap = InitAp
    /\ conns = [live |-> "closed", tmp |-> "closed"]
    /\ outcome = NoOutcome
    /\ hist = InitHist(disk)

\* ------------------------------------------------------------ safe_migrate

Raise(o) == outcome' = o /\ pc' = "done"

\* The precondition checks placed after the backup directory is made.
SM_PrecheckAfterMkdir ==
    /\ pc = "safe_migrate"
    /\ disk' = [disk EXCEPT !.backup_dir = TRUE]
    /\ IF args.current_version >= args.latest_version
       THEN Raise(NoMigrationNeeded)
       ELSE IF ~Exists(disk.live)
            THEN Raise(RuntimeError("Database does not exist"))
            ELSE IF ~patches_dir.exists
                 THEN Raise(RuntimeError("Patches directory does not exist"))
                 ELSE pc' = "create_verified_backup" /\ UNCHANGED outcome
    /\ UNCHANGED <<patches_dir, args, loc, ap, conns, hist>>

\* Lines 182-189: the precondition checks.
SM_Precheck ==
    /\ pc = "safe_migrate"
    /\ IF args.current_version >= args.latest_version
       THEN Raise(NoMigrationNeeded)
       ELSE IF ~Exists(disk.live)
            THEN Raise(RuntimeError("Database does not exist"))
            ELSE IF ~patches_dir.exists
                 THEN Raise(RuntimeError("Patches directory does not exist"))
                 ELSE pc' = "create_verified_backup" /\ UNCHANGED outcome
    /\ UNCHANGED <<disk, patches_dir, args, loc, ap, conns, hist>>

\* ---------------------------------------------------- create_verified_backup

\* for letter in string.ascii_lowercase: the first candidate that does not exist
\* The loop without the exists() test: the first letter is taken.
FirstSlot(backups) == 1

\* Lines 70-75: the first letter of a..z whose candidate does not exist; 0
\* stands for backup_path = None.
FirstUnusedSlot(backups) ==
    IF \E i \in Slots : ~Exists(backups[i])
    THEN CHOOSE i \in Slots : ~Exists(backups[i]) /\ \A j \in 1..(i - 1) : Exists(backups[j])
    ELSE 0

\* Lines 61-81 with the directory made before the existence check.
CVB_StartMkdirFirst ==
    /\ pc = "create_verified_backup"
    /\ disk' = [disk EXCEPT !.backup_dir = TRUE]
    /\ IF ~Exists(disk.live)
       THEN /\ Raise(RuntimeError("Database file does not exist"))
            /\ UNCHANGED loc
       ELSE LET slot == FirstUnusedSlot(disk.backups)
            IN IF slot = 0
               THEN /\ Raise(RuntimeError("Exhausted backup slots"))
                    /\ UNCHANGED loc
               ELSE /\ loc' = [loc EXCEPT !.candidate = slot,
                                          !.live_hash = sha256_file(Content(disk.live))]
                    /\ pc' = "cvb_copy"
                    /\ UNCHANGED outcome
    /\ UNCHANGED <<patches_dir, args, ap, conns, hist>>

\* Lines 61-81: existence check, mkdir, slot choice, digest of the live file.
CVB_Start ==
    /\ pc = "create_verified_backup"
    /\ IF ~Exists(disk.live)
       THEN /\ Raise(RuntimeError("Database file does not exist"))
            /\ UNCHANGED <<disk, loc>>
       ELSE LET slot == FirstUnusedSlot(disk.backups)
            IN /\ disk' = [disk EXCEPT !.backup_dir = TRUE]
               /\ IF slot = 0
                  THEN /\ Raise(RuntimeError("Exhausted backup slots"))
                       /\ UNCHANGED loc
                  ELSE /\ loc' = [loc EXCEPT !.candidate = slot,
                                             !.live_hash = sha256_file(Content(disk.live))]
                       /\ pc' = "cvb_copy"
                       /\ UNCHANGED outcome
    /\ UNCHANGED <<patches_dir, args, ap, conns, hist>>

\* Line 84: shutil.copy2(db_path, backup_path).  The copy is faithful, or its
\* bytes are silently corrupted, or it fails part way (disk full, I/O error)
\* and leaves a truncated file behind.
CVB_Copy ==
    /\ pc = "cvb_copy"
    /\ \/ /\ disk' = [disk EXCEPT !.backups[loc.candidate] = disk.live]
          /\ pc' = "cvb_verify"
          /\ UNCHANGED outcome
       \/ /\ disk' = [disk EXCEPT !.backups[loc.candidate] =
                            FileOf([Content(disk.live) EXCEPT !.damage = 1])]
          /\ pc' = "cvb_verify"
          /\ UNCHANGED outcome
       \/ /\ disk' = [disk EXCEPT !.backups[loc.candidate] =
                            FileOf([Content(disk.live) EXCEPT !.damage = 2])]
          /\ Raise(RawError("OSError"))
    /\ UNCHANGED <<patches_dir, args, loc, ap, conns, hist>>

\* Line 95: return backup_path, to safe_migrate (line 192) or to the caller of
\* create_verified_backup.
CvbReturn(backup_path) ==
    IF args.call = "create_verified_backup"
    THEN Raise(Success(backup_path))
    ELSE pc' = "sm_snapshot" /\ UNCHANGED outcome

\* Lines 87-95 without the comparison: the copy is returned unchecked.
CVB_VerifyUnchecked ==
    /\ pc = "cvb_verify"
    /\ loc' = [loc EXCEPT !.backup_path = loc.candidate]
    /\ hist' = [hist EXCEPT !.verified = loc.candidate,
                            !.returned = Append(@, Returned(loc.candidate,
                                                           disk.backups[loc.candidate]))]
    /\ CvbReturn(loc.candidate)
    /\ UNCHANGED <<disk, patches_dir, args, ap, conns>>

\* Lines 87-95: digest of the copy, comparison, unlink on mismatch, return.
CVB_Verify ==
    /\ pc = "cvb_verify"
    /\ LET backup_hash == sha256_file(Content(disk.backups[loc.candidate]))
       IN IF backup_hash # loc.live_hash
          THEN /\ disk' = [disk EXCEPT !.backups[loc.candidate] = NoFile]
               /\ Raise(RuntimeError("Backup checksum mismatch"))
               /\ UNCHANGED <<loc, hist>>
          ELSE /\ loc' = [loc EXCEPT !.backup_path = loc.candidate]
               /\ hist' = [hist EXCEPT !.verified = loc.candidate,
                                       !.returned = Append(@, Returned(loc.candidate,
                                                              disk.backups[loc.candidate]))]
               /\ CvbReturn(loc.candidate)
               /\ UNCHANGED disk
    /\ UNCHANGED <<patches_dir, args, ap, conns>>

\* Line 87 failing: the copy cannot be read back, sha256_file raises.
CVB_DigestFails ==
    /\ pc = "cvb_verify"
    /\ Raise(RawError("OSError"))
    /\ UNCHANGED <<disk, patches_dir, args, loc, ap, conns, hist>>

\* ------------------------------------------------- safe_migrate, steps 2 - 5

\* sqlite3.connect(): a new connection; SQLite's foreign-key enforcement is off
\* until a PRAGMA turns it on.
Connected == "off"

\* Lines 195-196: the connection to the live file for the snapshot.
SM_SnapshotConnect ==
    /\ pc = "sm_snapshot"
    /\ conns' = [conns EXCEPT !.live = Connected]
    /\ pc' = "sm_snapshot_counts"
    /\ UNCHANGED <<disk, patches_dir, args, loc, ap, outcome, hist>>

\* Lines 197-200: snapshot of the live row counts; the finally clause closes
\* the connection.
SM_Snapshot ==
    /\ pc = "sm_snapshot_counts"
    /\ loc' = [loc EXCEPT !.pre_counts = table_row_counts(Content(disk.live))]
    /\ hist' = [hist EXCEPT !.snapshots = @ + 1]
    /\ conns' = [conns EXCEPT !.live = "closed"]
    /\ pc' = "sm_trial_copy"
    /\ UNCHANGED <<disk, patches_dir, args, ap, outcome>>

\* Lines 203-215: the scratch file, the copy of the live file, the connection to
\* it.  A failing copy runs the finally clause (unlink) and propagates.
SM_TrialCopy ==
    /\ pc = "sm_trial_copy"
    /\ \/ /\ disk' = [disk EXCEPT !.tmp = disk.live]
          /\ conns' = [conns EXCEPT !.tmp = Connected]
          /\ ap' = [conn |-> "tmp", todo |-> << >>, idx |-> 0,
                    cur |-> args.current_version]
          /\ pc' = "ap_discover"
          /\ UNCHANGED outcome
       \/ /\ Raise(RawError("OSError"))
          /\ UNCHANGED <<disk, conns, ap>>
    /\ UNCHANGED <<patches_dir, args, loc, hist>>

\* Lines 219-223, 227-228, 238-241: a SQL error of the trial becomes
\* MigrationAborted; the scratch connection is closed, the scratch file removed.
SM_TrialSqlError ==
    /\ pc = "sm_trial_except"
    /\ Raise(TrialSqlAbort(loc.backup_path))
    /\ conns' = [conns EXCEPT !.tmp = "closed"]
    /\ disk' = [disk EXCEPT !.tmp = NoFile]
    /\ UNCHANGED <<patches_dir, args, loc, ap, hist>>

\* Lines 226-228: snapshot of the scratch copy, close.
SM_TrialSnapshotLeavesOpen ==
    /\ pc = "sm_trial_snapshot"
    /\ loc' = [loc EXCEPT !.post_counts = table_row_counts(Content(disk.tmp))]
    /\ pc' = "sm_trial_validate"
    /\ UNCHANGED <<disk, patches_dir, args, ap, conns, outcome, hist>>

SM_TrialSnapshot ==
    /\ pc = "sm_trial_snapshot"
    /\ loc' = [loc EXCEPT !.post_counts = table_row_counts(Content(disk.tmp))]
    /\ conns' = [conns EXCEPT !.tmp = "closed"]
    /\ pc' = "sm_trial_validate"
    /\ UNCHANGED <<disk, patches_dir, args, ap, outcome, hist>>

\* Lines 230-241 with the errors ignored: the live patch runs in any case.
SM_TrialValidateIgnored ==
    /\ pc = "sm_trial_validate"
    /\ hist' = [hist EXCEPT !.trial_validated = TRUE,
                            !.trial_errors = validate_row_counts(loc.pre_counts, loc.post_counts)]
    /\ disk' = [disk EXCEPT !.tmp = NoFile]
    /\ pc' = "sm_live_patch"
    /\ UNCHANGED <<patches_dir, args, loc, ap, conns, outcome>>

\* Lines 230-241 with the removal after the validation instead of in a finally
\* block: an abort leaves the scratch file.
SM_TrialValidateNoFinally ==
    /\ pc = "sm_trial_validate"
    /\ LET errors == validate_row_counts(loc.pre_counts, loc.post_counts)
       IN /\ hist' = [hist EXCEPT !.trial_validated = TRUE, !.trial_errors = errors]
          /\ IF errors # << >>
             THEN Raise(TrialLossAbort(errors, loc.backup_path)) /\ UNCHANGED disk
             ELSE /\ disk' = [disk EXCEPT !.tmp = NoFile]
                  /\ pc' = "sm_live_patch" /\ UNCHANGED outcome
    /\ UNCHANGED <<patches_dir, args, loc, ap, conns>>

\* Lines 230-241: validation of the trial; the scratch file is removed on both
\* branches.
SM_TrialValidate ==
    /\ pc = "sm_trial_validate"
    /\ LET errors == validate_row_counts(loc.pre_counts, loc.post_counts)
       IN /\ hist' = [hist EXCEPT !.trial_validated = TRUE, !.trial_errors = errors]
          /\ disk' = [disk EXCEPT !.tmp = NoFile]
          /\ IF errors # << >>
             THEN Raise(TrialLossAbort(errors, loc.backup_path))
             ELSE pc' = "sm_live_patch" /\ UNCHANGED outcome
    /\ UNCHANGED <<patches_dir, args, loc, ap, conns>>

\* ------------------------------------------------- safe_migrate, steps 6 - 7

\* Lines 244-249 with the row counts taken again before the live patch.
SM_LivePatchResnapshot ==
    /\ pc = "sm_live_patch"
    /\ conns' = [conns EXCEPT !.live = Connected]
    /\ loc' = [loc EXCEPT !.pre_counts = table_row_counts(Content(disk.live))]
    /\ ap' = [conn |-> "live", todo |-> << >>, idx |-> 0, cur |-> args.current_version]
    /\ hist' = [hist EXCEPT !.live_applies = @ + 1, !.snapshots = @ + 1]
    /\ pc' = "ap_discover"
    /\ UNCHANGED <<disk, patches_dir, args, outcome>>

\* Lines 244-249: connection to the live database, call of the applier.
SM_LivePatchFromRecordedVersion ==
    /\ pc = "sm_live_patch"
    /\ conns' = [conns EXCEPT !.live = Connected]
    /\ ap' = [conn |-> "live", todo |-> << >>, idx |-> 0, cur |-> Content(disk.live).ver]
    /\ hist' = [hist EXCEPT !.live_applies = @ + 1]
    /\ pc' = "ap_discover"
    /\ UNCHANGED <<disk, patches_dir, args, loc, outcome>>

SM_LivePatch ==
    /\ pc = "sm_live_patch"
    /\ conns' = [conns EXCEPT !.live = Connected]
    /\ ap' = [conn |-> "live", todo |-> << >>, idx |-> 0, cur |-> args.current_version]
    /\ hist' = [hist EXCEPT !.live_applies = @ + 1]
    /\ pc' = "ap_discover"
    /\ UNCHANGED <<disk, patches_dir, args, loc, outcome>>

\* Lines 246-254: a SQL error of the live patch is not caught; the finally
\* clause closes the connection and the error reaches the caller.
SM_LiveSqlError ==
    /\ pc = "sm_live_except"
    /\ Raise(RawError("sqlite3.Error"))
    /\ conns' = [conns EXCEPT !.live = "closed"]
    /\ UNCHANGED <<disk, patches_dir, args, loc, ap, hist>>

\* Lines 252-254: snapshot of the live database after the patch, close.
SM_LiveSnapshot ==
    /\ pc = "sm_live_snapshot"
    /\ loc' = [loc EXCEPT !.post_live_counts = table_row_counts(Content(disk.live))]
    /\ conns' = [conns EXCEPT !.live = "closed"]
    /\ pc' = "sm_live_validate"
    /\ UNCHANGED <<disk, patches_dir, args, ap, outcome, hist>>

\* Lines 256-264 with the errors ignored.
SM_LiveValidateIgnored ==
    /\ pc = "sm_live_validate"
    /\ Raise(Success(loc.backup_path))
    /\ UNCHANGED <<disk, patches_dir, args, loc, ap, conns, hist>>

\* Lines 256-264 with a restore that moves the backup over the live file when
\* the validation fails.
SM_LiveValidateRestoreByMove ==
    /\ pc = "sm_live_validate"
    /\ LET live_errors == validate_row_counts(loc.pre_counts, loc.post_live_counts)
       IN IF live_errors # << >>
          THEN /\ disk' = [disk EXCEPT !.live = disk.backups[loc.backup_path],
                                       !.backups[loc.backup_path] = NoFile]
               /\ Raise(LiveLossAbort(live_errors, loc.backup_path))
          ELSE Raise(Success(loc.backup_path)) /\ UNCHANGED disk
    /\ UNCHANGED <<patches_dir, args, loc, ap, conns, hist>>

\* Lines 256-264: validation of the live database, success.
SM_LiveValidate ==
    /\ pc = "sm_live_validate"
    /\ LET live_errors == validate_row_counts(loc.pre_counts, loc.post_live_counts)
       IN IF live_errors # << >>
          THEN Raise(LiveLossAbort(live_errors, loc.backup_path))
          ELSE Raise(Success(loc.backup_path))
    /\ UNCHANGED <<disk, patches_dir, args, loc, ap, conns, hist>>

\* ------------------------------------------------------- _apply_patches_to

ConnDb == Content(disk[ap.conn])
OnLive(n) == IF ap.conn = "live" THEN n ELSE 0

\* The applier's SQL error leaves the function; the caller's handler is next.
ApRaise == pc' = (IF ap.conn = "tmp" THEN "sm_trial_except" ELSE "sm_live_except")

\* Lines 109-116: the patch files, sorted by (version, path).
AP_Discover ==
    /\ pc = "ap_discover"
    /\ ap' = [ap EXCEPT !.todo = DiscoverPatches(patches_dir.files)]
    /\ pc' = "ap_loop"
    /\ UNCHANGED <<disk, patches_dir, args, loc, conns, outcome, hist>>

\* Lines 117-120: a patch outside (current_version, latest_version] is skipped.
AP_Skip ==
    /\ pc = "ap_loop"
    /\ ap.todo # << >>
    /\ ~Eligible(PatchVersion(Head(ap.todo).name), ap.cur, args.latest_version)
    /\ ap' = [ap EXCEPT !.todo = Tail(@)]
    /\ UNCHANGED <<disk, patches_dir, pc, args, loc, conns, outcome, hist>>

\* Line 121: PRAGMA foreign_keys = OFF, before the script of an eligible patch.
AP_Begin ==
    /\ pc = "ap_loop"
    /\ ap.todo # << >>
    /\ Eligible(PatchVersion(Head(ap.todo).name), ap.cur, args.latest_version)
    /\ conns' = [conns EXCEPT ![ap.conn] = "off"]
    /\ ap' = [ap EXCEPT !.idx = 1]
    /\ hist' = [hist EXCEPT !.live_exec = @ + OnLive(1),
                            !.ran = Append(@, Ran(ap.conn, Head(ap.todo).name, ConnDb))]
    /\ pc' = "ap_script"
    /\ UNCHANGED <<disk, patches_dir, args, loc, outcome>>

\* Line 122 inside a handler that passes over a failing script: the loop goes
\* on with the next patch file.
AP_StmtSkipsFailedPatch ==
    /\ pc = "ap_script"
    /\ ap.idx <= Len(Head(ap.todo).script)
    /\ \E r \in ExecStmt(ConnDb, Head(ap.todo).script[ap.idx]) :
         /\ disk' = [disk EXCEPT ![ap.conn] = FileOf(r.db)]
         /\ IF r.ok
            THEN /\ ap' = [ap EXCEPT !.idx = @ + 1]
                 /\ hist' = [hist EXCEPT !.live_exec = @ + OnLive(1)]
                 /\ UNCHANGED pc
            ELSE /\ pc' = "ap_loop"
                 /\ ap' = [ap EXCEPT !.todo = Tail(@)]
                 /\ hist' = [hist EXCEPT !.live_exec = @ + OnLive(1),
                                         !.raised = << ap.conn, Head(ap.todo).name >>]
    /\ UNCHANGED <<patches_dir, args, loc, conns, outcome>>

\* Line 122: executescript runs the statements one by one in autocommit mode;
\* the first failing statement raises and the earlier ones stay committed.
AP_Stmt ==
    /\ pc = "ap_script"
    /\ ap.idx <= Len(Head(ap.todo).script)
    /\ \E r \in ExecStmt(ConnDb, Head(ap.todo).script[ap.idx]) :
         /\ disk' = [disk EXCEPT ![ap.conn] = FileOf(r.db)]
         /\ IF r.ok
            THEN /\ ap' = [ap EXCEPT !.idx = @ + 1]
                 /\ hist' = [hist EXCEPT !.live_exec = @ + OnLive(1)]
                 /\ UNCHANGED pc
            ELSE /\ ApRaise
                 /\ hist' = [hist EXCEPT !.live_exec = @ + OnLive(1),
                                         !.raised = << ap.conn, Head(ap.todo).name >>]
                 /\ UNCHANGED ap
    /\ UNCHANGED <<patches_dir, args, loc, conns, outcome>>

\* Line 123: PRAGMA foreign_keys = ON, after the script.
AP_ScriptDone ==
    /\ pc = "ap_script"
    /\ ap.idx > Len(Head(ap.todo).script)
    /\ conns' = [conns EXCEPT ![ap.conn] = "on"]
    /\ hist' = [hist EXCEPT !.live_exec = @ + OnLive(1)]
    /\ pc' = "ap_version"
    /\ UNCHANGED <<disk, patches_dir, args, loc, ap, outcome>>

\* Lines 125-130: the schema version is recorded, current_version advances.
AP_Version ==
    /\ pc = "ap_version"
    /\ LET version == PatchVersion(Head(ap.todo).name)
           r == SetSchemaVersion(ConnDb, version)
       IN /\ disk' = [disk EXCEPT ![ap.conn] = FileOf(r.db)]
          /\ IF r.ok
             THEN /\ ap' = [ap EXCEPT !.cur = version, !.todo = Tail(@)]
                  /\ pc' = "ap_loop"
             ELSE ApRaise /\ UNCHANGED ap
    /\ hist' = [hist EXCEPT !.live_exec = @ + OnLive(1)]
    /\ UNCHANGED <<patches_dir, args, loc, conns, outcome>>

\* Line 132: return current_version.
AP_Return ==
    /\ pc = "ap_loop"
    /\ ap.todo = << >>
    /\ pc' = (IF ap.conn = "tmp" THEN "sm_trial_snapshot" ELSE "sm_live_snapshot")
    /\ hist' = [hist EXCEPT !.trial_patched = @ \/ ap.conn = "tmp"]
    /\ UNCHANGED <<disk, patches_dir, args, loc, ap, conns, outcome>>

\* ------------------------------------------------------------ specification

Next ==
    \/ SM_Precheck
    \/ CVB_Start
    \/ CVB_Copy
    \/ CVB_Verify
    \/ CVB_DigestFails
    \/ SM_SnapshotConnect
    \/ SM_Snapshot
    \/ SM_TrialCopy
    \/ AP_Discover
    \/ AP_Skip
    \/ AP_Begin
    \/ AP_Stmt
    \/ AP_ScriptDone
    \/ AP_Version
    \/ AP_Return
    \/ SM_TrialSqlError
    \/ SM_TrialSnapshot
    \/ SM_TrialValidate
    \/ SM_LivePatch
    \/ SM_LiveSqlError
    \/ SM_LiveSnapshot
    \/ SM_LiveValidate

Spec == Init /\ [][Next]_vars

Done == pc = "done"

\* ------------------------------------------------- one call after the other

\* The history of the call that follows a finished one.
NextHist ==
    [InitHist(disk) EXCEPT !.calls = hist.calls + 1, !.prev = outcome.kind,
                           !.returned = hist.returned]

\* The caller of safe_migrate calls again on the same database and patch
\* directory: with the arguments of the call before, or with the version that
\* call migrated to as current_version.
Caller_MigrateAgain ==
    /\ Done
    /\ args.call = "safe_migrate"
    /\ hist.calls < MaxCalls
    /\ \E c \in {args.current_version, args.latest_version} :
          args' = [args EXCEPT !.current_version = c]
    /\ pc' = "safe_migrate"
    /\ loc' = InitLoc
    /\ ap' = InitAp
    /\ outcome' = NoOutcome
    /\ hist' = NextHist
    /\ UNCHANGED <<disk, patches_dir, conns>>

NextCalls == Next \/ Caller_MigrateAgain

SpecCalls == Init /\ [][NextCalls]_vars

\* ------------------------------------- create_verified_backup, called alone

\* create_verified_backup(db_path) called by itself, as test_backup.py does: no
\* patch directory and no versions take part.
InitBackup ==
    /\ \E db \in InitDbs, b \in InitBackups, present \in BOOLEAN :
          disk = [live |-> IF present THEN FileOf(db) ELSE NoFile,
                  tmp |-> NoFile, backups |-> b.files, backup_dir |-> b.dir]
    /\ patches_dir = [exists |-> FALSE, files |-> {}]
    /\ args = [call |-> "create_verified_backup", current_version |-> 1, latest_version |-> 1]
    /\ pc = "create_verified_backup"
    /\ loc = InitLoc
    /\ ap = InitAp
    /\ conns = [live |-> "closed", tmp |-> "closed"]
    /\ outcome = NoOutcome
    /\ hist = InitHist(disk)

\* The caller backs the same file up again on the same day; the application may
\* have written to the database in between.
Caller_BackupAgain ==
    /\ Done
    /\ args.call = "create_verified_backup"
    /\ hist.calls < MaxCalls
    /\ \E written \in BOOLEAN :
          /\ disk' = IF written /\ Exists(disk.live)
                     THEN [disk EXCEPT !.live = FileOf(Written(Content(disk.live)))]
                     ELSE disk
          /\ hist' = [InitHist(disk') EXCEPT !.calls = hist.calls + 1,
                                             !.prev = outcome.kind,
                                             !.returned = hist.returned]
    /\ pc' = "create_verified_backup"
    /\ loc' = InitLoc
    /\ outcome' = NoOutcome
    /\ UNCHANGED <<patches_dir, args, ap, conns>>

NextBackup ==
    \/ CVB_Start
    \/ CVB_Copy
    \/ CVB_Verify
    \/ CVB_DigestFails
    \/ Caller_BackupAgain

SpecBackup == InitBackup /\ [][NextBackup]_vars

\* ------------------------------------------ validate_row_counts, called alone

\* The mappings of table names to row counts.
\* The sequences that hold every element of S once.
Orderings(S) ==
    { q \in [1..Cardinality(S) -> S] : \A i, j \in DOMAIN q : q[i] = q[j] => i = j }

\* The dicts a caller may pass: any of the tables, inserted in any order.
CountMappings ==
    UNION { { Dict(keys, val) : keys \in Orderings(names), val \in [names -> 0..MaxCount] } :
            names \in SUBSET Tables }

\* validate_row_counts(before, after) called with two mappings, as
\* test_validate_row_counts_catches_loss does.
InitValidate ==
    /\ disk = [live |-> NoFile, tmp |-> NoFile,
               backups |-> [i \in Slots |-> NoFile], backup_dir |-> FALSE]
    /\ patches_dir = [exists |-> FALSE, files |-> {}]
    /\ args = [call |-> "validate_row_counts", current_version |-> 0, latest_version |-> 0]
    /\ pc = "validate_row_counts"
    /\ \E before \in CountMappings, after \in CountMappings :
          loc = [InitLoc EXCEPT !.pre_counts = before, !.post_counts = after]
    /\ ap = InitAp
    /\ conns = [live |-> "closed", tmp |-> "closed"]
    /\ outcome = NoOutcome
    /\ hist = InitHist(disk)

\* Lines 135-161: the call returns its list of errors.
V_Return ==
    /\ pc = "validate_row_counts"
    /\ Raise(Outcome("success", "", FALSE,
                     validate_row_counts(loc.pre_counts, loc.post_counts), 0))
    /\ UNCHANGED <<disk, patches_dir, args, loc, ap, conns, hist>>

NextValidate == V_Return

SpecValidate == InitValidate /\ [][NextValidate]_vars

\* --------------------------------------------------- db.py, ensure_schema

\* db.py line 23.
LATEST_SCHEMA_VERSION == 10

\* The statements of a script from the i-th on, run one by one in autocommit
\* mode: the results are the databases after the whole script, or after the
\* statements before the first failing one.
\* db.py lines 58-67: None (here 0) without the table or without the row.
get_schema_version(db) == IF db.ver <= 0 THEN 0 ELSE db.ver

\* db.py lines 70-74: the statement raises sqlite3.OperationalError on a
\* database without the schema_version table.
set_schema_version(db, version) == SetSchemaVersion(db, version)

\* db.py lines 105-106 and 121-122: "project_id" in the columns of contexts.
HasProjectId(db) == ProjectIdCol \in db.app
\* db.py lines 94-95 and 109: "is_deleted" in the columns of tasks.
HasIsDeleted(db) == IsDeletedCol \in db.app

\* schema.sql as ensure_schema relies on it: it makes the application's tables
\* and schema_version where they are missing, in the latest shape, and leaves
\* the tables that exist as they are.
SchemaSql == << Stmt("create_app", ContextsName, ContextsName),
                Stmt("create_version", SchemaVersionTable, SchemaVersionTable) >>

\* ALTER TABLE contexts ADD COLUMN project_id ...
AddProjectId == Stmt("add_project_id", ContextsName, ContextsName)

\* The directory schema_patches next to db.py.
EnsurePatchDirs == PatchDirs \cup {{PatchFile(Patch2, << AddProjectId >>)}}

\* The tables context_notes of the fixtures, one context each, before the
\* backfill of lines 173-226.
NoteTable(rows) == NotesDb(InitContexts, rows, MaxOf({r.id : r \in rows}), TRUE)

NoteFixtures ==
    LET goal(id, text) == NoteRow(id, 1, text, "goal")
        plan(id, text) == NoteRow(id, 1, text, "plan")
        note(id, text) == NoteRow(id, 1, text, "note")
    IN { \* a goal, and a note with a Goal section
         {goal(1, << Body >>), note(2, << GoalHeader, Body >>)},
         \* the placeholders of patch 9, and a note with a Plan section
         {goal(1, << Migrated >>), plan(2, << Migrated >>),
          note(3, << PlanHeader, Body >>)},
         \* a Goal header with nothing under it
         {goal(1, << Migrated >>), note(2, << GoalHeader, Blank >>)},
         \* '## Goal' inside a line, and a note without a header
         {note(1, << InlineGoal >>), note(2, << Body >>)},
         \* text, both sections and another section; a plan is there
         {plan(1, << Body >>),
          note(2, << Body, GoalHeader, Body, PlanHeader, Body, OtherHeader, Body >>)},
         \* two notes with headers; a Plan header right under the Goal header
         {goal(1, << Migrated >>), note(2, << InlineGoal, PlanHeader, Body >>),
          note(3, << GoalHeader, PlanHeader, Body >>)},
         \* sections whose text begins '(migrated'
         {note(1, << GoalHeader, Migrated, Blank, PlanHeader, Blank, Migrated >>)} }

\* What the database that is opened holds of the application: nothing; the
\* tables of a legacy version; the tables of version 6 as make_test_db
\* creates them, also with a context that has no user; the latest schema
\* with nothing left to backfill, and with everything left to backfill.
AppFixtures ==
    LET v6 == {AppTables, TaskNumberCol, TaskIdCol, IsDeletedCol, UserIdCol,
               TaskRows, ActiveContext}
        latest == {AppTables} \cup LatestColumns
                  \cup {ChangelogIndex, DeletedIndex, ProjectIndex, ProjectNameIndex}
    IN { {},
         {AppTables, TaskRows},
         v6,
         v6 \cup {OrphanContext},
         latest \cup {TaskRows, TasksNumbered},
         {AppTables} \cup LatestColumns
            \cup {TaskRows, OrphanContext, ActiveContext, ActiveProject} }

\* The databases ensure_schema may be given: each of AppFixtures without
\* notes, and the ones with the column context_notes.kind with each table of
\* NoteFixtures.
EnsureFixtures ==
    { [app |-> app, notes |-> NoNotes] : app \in AppFixtures }
    \cup { [app |-> app, notes |-> NoteTable(rows)] :
               app \in {f \in AppFixtures : KindCol \in f}, rows \in NoteFixtures }

\* The operator opens the database that is on disk and calls ensure_schema
\* (mcpptool.py line 206); the patch directory is the one next to db.py.
InitEnsure ==
    /\ \E db \in InitDbs, b \in InitBackups, f \in EnsureFixtures :
          disk = [live |-> FileOf([db EXCEPT !.app = f.app, !.notes = f.notes]),
                  tmp |-> NoFile,
                  backups |-> b.files, backup_dir |-> b.dir]
    /\ \E d \in EnsurePatchDirs, present \in BOOLEAN :
          patches_dir = [exists |-> present, files |-> IF present THEN d ELSE {}]
    /\ args = [call |-> "ensure_schema", current_version |-> 0,
               latest_version |-> LATEST_SCHEMA_VERSION]
    /\ pc = "connect"
    /\ loc = InitLoc
    /\ ap = InitAp
    /\ conns = [live |-> "closed", tmp |-> "closed"]
    /\ outcome = NoOutcome
    /\ hist = InitHist(disk)

\* db.py lines 16-21: ensure_schema's caller opens the live file with connect().
DB_Connect ==
    /\ pc = "connect"
    /\ disk' = [disk EXCEPT !.live = FileOf(connect(Content(disk.live)))]
    /\ conns' = [conns EXCEPT !.live = "on"]
    /\ ap' = [ap EXCEPT !.conn = "live", !.idx = 1]
    /\ pc' = "es_schema"
    /\ UNCHANGED <<patches_dir, args, loc, outcome, hist>>

\* A statement of ensure_schema on the live database, in autocommit mode: its
\* result r is on disk at once; ensure_schema goes on, or the error leaves it.
EsExecute(r, next) ==
    /\ disk' = [disk EXCEPT !.live = FileOf(r.db)]
    /\ IF r.ok THEN pc' = next /\ UNCHANGED outcome
       ELSE Raise(RawError("sqlite3.OperationalError"))

\* db.py lines 78-79: executescript(schema.sql), statement by statement.
ES_Schema ==
    /\ pc = "es_schema"
    /\ \E r \in ExecStmt(Content(disk.live), SchemaSql[ap.idx]) :
          EsExecute(r, IF ap.idx < Len(SchemaSql) THEN "es_schema" ELSE "es_task_number")
    /\ ap' = [ap EXCEPT !.idx = IF @ < Len(SchemaSql) THEN @ + 1 ELSE 0]
    /\ UNCHANGED <<patches_dir, args, loc, conns, hist>>

\* db.py lines 81-83: tasks gets the column task_number when it has none.
ES_TaskNumber ==
    /\ pc = "es_task_number"
    /\ LET db == Content(disk.live)
       IN EsExecute(IF TaskNumberCol \notin db.app
                    THEN AddAppColumn(db, TaskNumberCol) ELSE SqlOk(db),
                    "es_task_id")
    /\ UNCHANGED <<patches_dir, args, loc, ap, conns, hist>>

\* db.py lines 85-87: changelog gets the column task_id when it has none.
ES_TaskId ==
    /\ pc = "es_task_id"
    /\ LET db == Content(disk.live)
       IN EsExecute(IF TaskIdCol \notin db.app
                    THEN AddAppColumn(db, TaskIdCol) ELSE SqlOk(db),
                    "es_changelog_index")
    /\ UNCHANGED <<patches_dir, args, loc, ap, conns, hist>>

\* db.py lines 89-92: CREATE INDEX IF NOT EXISTS idx_changelog_task_created.
ES_ChangelogIndex ==
    /\ pc = "es_changelog_index"
    /\ EsExecute(CreateIndex(Content(disk.live), ChangelogIndex, {TaskIdCol}),
                 "es_deleted_index")
    /\ UNCHANGED <<patches_dir, args, loc, ap, conns, hist>>

\* db.py lines 94-100: with tasks.is_deleted, CREATE INDEX IF NOT EXISTS
\* idx_tasks_context_deleted.
ES_DeletedIndex ==
    /\ pc = "es_deleted_index"
    /\ LET db == Content(disk.live)
       IN EsExecute(IF HasIsDeleted(db)
                    THEN CreateIndex(db, DeletedIndex, {IsDeletedCol}) ELSE SqlOk(db),
                    "es_version")
    /\ UNCHANGED <<patches_dir, args, loc, ap, conns, hist>>

\* db.py lines 102-118: the recorded version is read; without one the version
\* is inferred from the columns and recorded; a version behind the latest one
\* goes to apply_schema_patches.
ES_Version ==
    /\ pc = "es_version"
    /\ LET db == Content(disk.live)
           inferred == IF HasProjectId(db) THEN LATEST_SCHEMA_VERSION
                       ELSE IF HasIsDeleted(db) THEN 6 ELSE 1
           r == IF get_schema_version(db) = 0
                THEN set_schema_version(db, inferred) ELSE SqlOk(db)
           version == get_schema_version(r.db)
       IN /\ EsExecute(r, IF version < LATEST_SCHEMA_VERSION
                          THEN "apply_schema_patches" ELSE "es_project_index")
          /\ ap' = [ap EXCEPT !.cur = version]
          /\ hist' = [hist EXCEPT !.live_before = FileOf(r.db)]
    /\ UNCHANGED <<patches_dir, args, loc, conns>>

\* db.py lines 35-46: no patch directory, no patches; else the patch files
\* sorted by (version, path).
ASP_Discover ==
    /\ pc = "apply_schema_patches"
    /\ IF ~patches_dir.exists
       THEN pc' = "es_project_index" /\ UNCHANGED ap
       ELSE /\ ap' = [ap EXCEPT !.todo = DiscoverPatches(patches_dir.files)]
            /\ pc' = "asp_loop"
    /\ UNCHANGED <<disk, patches_dir, args, loc, conns, outcome, hist>>

\* db.py lines 46-48: a patch at or below the current version is skipped.
ASP_Skip ==
    /\ pc = "asp_loop"
    /\ ap.todo # << >>
    /\ PatchVersion(Head(ap.todo).name) <= ap.cur
    /\ ap' = [ap EXCEPT !.todo = Tail(@)]
    /\ UNCHANGED <<disk, patches_dir, pc, args, loc, conns, outcome, hist>>

\* db.py line 50: PRAGMA foreign_keys = OFF on the connection to the live
\* database.
ASP_Begin ==
    /\ pc = "asp_loop"
    /\ ap.todo # << >>
    /\ ~(PatchVersion(Head(ap.todo).name) <= ap.cur)
    /\ conns' = [conns EXCEPT !.live = "off"]
    /\ ap' = [ap EXCEPT !.idx = 1]
    /\ hist' = [hist EXCEPT !.live_exec = @ + 1, !.live_applies = 1]
    /\ pc' = "asp_script"
    /\ UNCHANGED <<disk, patches_dir, args, loc, outcome>>

\* db.py line 51: executescript runs the statements of the patch one by one in
\* autocommit mode; a SQL error leaves ensure_schema as it is raised, with the
\* earlier statements committed.
ASP_Stmt ==
    /\ pc = "asp_script"
    /\ ap.idx <= Len(Head(ap.todo).script)
    /\ \E r \in ExecStmt(Content(disk.live), Head(ap.todo).script[ap.idx]) :
         /\ disk' = [disk EXCEPT !.live = FileOf(r.db)]
         /\ IF r.ok
            THEN ap' = [ap EXCEPT !.idx = @ + 1] /\ UNCHANGED <<pc, outcome>>
            ELSE Raise(RawError("sqlite3.Error")) /\ UNCHANGED ap
    /\ hist' = [hist EXCEPT !.live_exec = @ + 1]
    /\ UNCHANGED <<patches_dir, args, loc, conns>>

\* db.py line 52: PRAGMA foreign_keys = ON, after the script.
ASP_ScriptDone ==
    /\ pc = "asp_script"
    /\ ap.idx > Len(Head(ap.todo).script)
    /\ conns' = [conns EXCEPT !.live = "on"]
    /\ hist' = [hist EXCEPT !.live_exec = @ + 1]
    /\ pc' = "asp_version"
    /\ UNCHANGED <<disk, patches_dir, args, loc, ap, outcome>>

\* db.py lines 53-54: the version of the patch is recorded, current_version
\* advances.
ASP_Version ==
    /\ pc = "asp_version"
    /\ LET version == PatchVersion(Head(ap.todo).name)
           r == set_schema_version(Content(disk.live), version)
       IN /\ EsExecute(r, "asp_loop")
          /\ ap' = IF r.ok THEN [ap EXCEPT !.cur = version, !.todo = Tail(@)] ELSE ap
    /\ hist' = [hist EXCEPT !.live_exec = @ + 1]
    /\ UNCHANGED <<patches_dir, args, loc, conns>>

\* db.py line 56: return current_version.
ASP_Return ==
    /\ pc = "asp_loop"
    /\ ap.todo = << >>
    /\ pc' = "es_project_index"
    /\ UNCHANGED <<disk, patches_dir, args, loc, ap, conns, outcome, hist>>

\* db.py lines 121-123: with contexts.project_id, CREATE INDEX IF NOT EXISTS
\* idx_contexts_project.
ES_ProjectIndex ==
    /\ pc = "es_project_index"
    /\ LET db == Content(disk.live)
       IN EsExecute(IF HasProjectId(db)
                    THEN CreateIndex(db, ProjectIndex, {ProjectIdCol}) ELSE SqlOk(db),
                    "es_project_name_index")
    /\ UNCHANGED <<patches_dir, args, loc, ap, conns, hist>>

\* db.py line 124: then CREATE UNIQUE INDEX IF NOT EXISTS
\* idx_contexts_project_name.
ES_ProjectNameIndex ==
    /\ pc = "es_project_name_index"
    /\ LET db == Content(disk.live)
       IN EsExecute(IF HasProjectId(db)
                    THEN CreateIndex(db, ProjectNameIndex, {ProjectIdCol}) ELSE SqlOk(db),
                    "es_task_numbers")
    /\ UNCHANGED <<patches_dir, args, loc, ap, conns, hist>>

\* db.py lines 127-140: UPDATE tasks SET task_number ... WHERE task_number IS
\* NULL; an UPDATE of no row leaves the file as it is.
ES_TaskNumbers ==
    /\ pc = "es_task_numbers"
    /\ LET db == Content(disk.live)
       IN EsExecute(IF TaskNumberCol \notin db.app THEN SqlError(db)
                    ELSE IF TaskRows \in db.app /\ TasksNumbered \notin db.app
                    THEN SqlOk(Written([db EXCEPT !.app = @ \cup {TasksNumbered}]))
                    ELSE SqlOk(db),
                    "es_orphans")
    /\ UNCHANGED <<patches_dir, args, loc, ap, conns, hist>>

\* db.py lines 143-146: SELECT COUNT(*) FROM contexts WHERE user_id IS NULL;
\* without such a context the backfill of users is passed over.
ES_Orphans ==
    /\ pc = "es_orphans"
    /\ LET db == Content(disk.live)
       IN EsExecute(IF UserIdCol \in db.app THEN SqlOk(db) ELSE SqlError(db),
                    IF OrphanContext \in db.app THEN "es_orphan_user" ELSE "es_notes")
    /\ UNCHANGED <<patches_dir, args, loc, ap, conns, hist>>

\* db.py line 147 and lines 253-262: get_or_create_user inserts the users row
\* of the OS user unless there is one.
ES_OrphanUser ==
    /\ pc = "es_orphan_user"
    /\ LET db == Content(disk.live)
       IN EsExecute(IF OsUser \in db.app THEN SqlOk(db)
                    ELSE SqlOk(Written([db EXCEPT !.app = @ \cup {OsUser}])),
                    "es_orphan_assign")
    /\ UNCHANGED <<patches_dir, args, loc, ap, conns, hist>>

\* db.py lines 148-151: UPDATE contexts SET user_id = ? WHERE user_id IS NULL.
ES_OrphanAssign ==
    /\ pc = "es_orphan_assign"
    /\ LET db == Content(disk.live)
       IN EsExecute(SqlOk(Written([db EXCEPT !.app = @ \ {OrphanContext}])),
                    "es_orphan_state")
    /\ UNCHANGED <<patches_dir, args, loc, ap, conns, hist>>

\* db.py lines 153-164: with an active context in global_state its project_id
\* is read, which takes the column, and with a project the user_state row of
\* the OS user is written.
ES_OrphanState ==
    /\ pc = "es_orphan_state"
    /\ LET db == Content(disk.live)
       IN EsExecute(IF ActiveContext \notin db.app THEN SqlOk(db)
                    ELSE IF ~HasProjectId(db) THEN SqlError(db)
                    ELSE IF ActiveProject \notin db.app THEN SqlOk(db)
                    ELSE SqlOk(Written([db EXCEPT !.app = @ \cup {OsUserState}])),
                    "es_notes")
    /\ UNCHANGED <<patches_dir, args, loc, ap, conns, hist>>

\* db.py lines 168-170 and 176-182: without context_notes.kind, or without a
\* note of kind 'note' that holds "## Goal" or "## Plan", ensure_schema
\* returns; else the rows selected (fetchall) are gone through one by one.
ES_Notes ==
    /\ pc = "es_notes"
    /\ LET db == Content(disk.live)
           rows == HeadedNotes(db.notes)
       IN IF KindCol \in db.app /\ rows # << >>
          THEN /\ loc' = [loc EXCEPT !.rows = rows]
               /\ pc' = "es_notes_goal" /\ UNCHANGED outcome
          ELSE Raise(Success(0)) /\ UNCHANGED loc
    /\ UNCHANGED <<disk, patches_dir, args, ap, conns, hist>>

\* db.py lines 184-200, for the row the loop is at: with a Goal section that
\* has text (goal_match and goal_text), the text is inserted as a row of kind
\* 'goal', whether or not the context has one; without, lines 197-205 are
\* skipped.
ES_NotesGoal ==
    /\ pc = "es_notes_goal"
    /\ LET db == Content(disk.live)
           row == Head(loc.rows)
           goal_text == SectionText(row.note_md, GoalHeader)
       IN IF goal_text # << >>
          THEN EsExecute(SqlOk(Written([db EXCEPT !.notes =
                           InsertNote(@, row.context_id, goal_text, "goal")])),
                         "es_notes_placeholder")
          ELSE pc' = "es_notes_plan" /\ UNCHANGED <<disk, outcome>>
    /\ UNCHANGED <<patches_dir, args, loc, ap, conns, hist>>

\* db.py lines 202-205: DELETE the goal rows of the context whose text begins
\* '(migrated', the row just inserted among them when its text begins so; a
\* DELETE that matches no row leaves the file as it is.
ES_NotesPlaceholder ==
    /\ pc = "es_notes_placeholder"
    /\ LET db == Content(disk.live)
           left == DeletePlaceholders(db.notes, Head(loc.rows).context_id, "goal")
       IN EsExecute(IF left # db.notes
                    THEN SqlOk(Written([db EXCEPT !.notes = left]))
                    ELSE SqlOk(db),
                    "es_notes_plan")
    /\ UNCHANGED <<patches_dir, args, loc, ap, conns, hist>>

\* db.py lines 207-213: with a Plan section that has text, the text is
\* inserted as a row of kind 'plan'; without, lines 210-217 are skipped.
ES_NotesPlan ==
    /\ pc = "es_notes_plan"
    /\ LET db == Content(disk.live)
           row == Head(loc.rows)
           plan_text == SectionText(row.note_md, PlanHeader)
       IN IF plan_text # << >>
          THEN EsExecute(SqlOk(Written([db EXCEPT !.notes =
                           InsertNote(@, row.context_id, plan_text, "plan")])),
                         "es_notes_plan_placeholder")
          ELSE pc' = "es_notes_rest" /\ UNCHANGED <<disk, outcome>>
    /\ UNCHANGED <<patches_dir, args, loc, ap, conns, hist>>

\* db.py lines 214-217: DELETE the plan rows of the context whose text begins
\* '(migrated'.
ES_NotesPlanPlaceholder ==
    /\ pc = "es_notes_plan_placeholder"
    /\ LET db == Content(disk.live)
           left == DeletePlaceholders(db.notes, Head(loc.rows).context_id, "plan")
       IN EsExecute(IF left # db.notes
                    THEN SqlOk(Written([db EXCEPT !.notes = left]))
                    ELSE SqlOk(db),
                    "es_notes_rest")
    /\ UNCHANGED <<patches_dir, args, loc, ap, conns, hist>>

\* db.py lines 219-226 and the loop of line 184: the note is deleted when
\* nothing remains of its text, and is given the remainder otherwise (an
\* UPDATE to the text it has leaves the file as it is); then the loop goes on
\* to the next row selected, and after the last one ensure_schema returns.
ES_NotesRest ==
    /\ pc = "es_notes_rest"
    /\ LET db == Content(disk.live)
           row == Head(loc.rows)
           remainder == Remainder(row.note_md)
           after == IF remainder # << >>
                    THEN UpdateNote(db.notes, row.id, remainder)
                    ELSE DeleteNote(db.notes, row.id)
       IN /\ disk' = [disk EXCEPT !.live =
                        FileOf(IF after # db.notes
                               THEN Written([db EXCEPT !.notes = after]) ELSE db)]
          /\ loc' = [loc EXCEPT !.rows = Tail(@)]
          /\ IF Tail(loc.rows) # << >>
             THEN pc' = "es_notes_goal" /\ UNCHANGED outcome
             ELSE Raise(Success(0))
    /\ UNCHANGED <<patches_dir, args, ap, conns, hist>>

NextEnsure ==
    \/ DB_Connect
    \/ ES_Schema
    \/ ES_TaskNumber
    \/ ES_TaskId
    \/ ES_ChangelogIndex
    \/ ES_DeletedIndex
    \/ ES_Version
    \/ ASP_Discover
    \/ ASP_Skip
    \/ ASP_Begin
    \/ ASP_Stmt
    \/ ASP_ScriptDone
    \/ ASP_Version
    \/ ASP_Return
    \/ ES_ProjectIndex
    \/ ES_ProjectNameIndex
    \/ ES_TaskNumbers
    \/ ES_Orphans
    \/ ES_OrphanUser
    \/ ES_OrphanAssign
    \/ ES_OrphanState
    \/ ES_Notes
    \/ ES_NotesGoal
    \/ ES_NotesPlaceholder
    \/ ES_NotesPlan
    \/ ES_NotesPlanPlaceholder
    \/ ES_NotesRest

SpecEnsure == InitEnsure /\ [][NextEnsure]_vars

\* =================================================================== claims

LiveHead == "Live migration FAILED validation - data loss detected"
TrialSqlHead == "Trial migration FAILED - SQL error on copy"
TrialLossHead == "Trial migration FAILED - data loss detected on copy"

IsScratch(t) == EndsWith(t, ScratchSuffix)

\* The non-scratch tables of `before` that lost rows or disappeared in `after`.
Offending(before, after) ==
    {t \in DOMAIN before.val :
        /\ ~IsScratch(t)
        /\ (t \notin DOMAIN after.val \/ after.val[t] < before.val[t])}

\* The patch file f is one the applier executes for the call's versions: it
\* matches the naming pattern, its version is in (current, latest], and no
\* file of the same version precedes it.
Runs(f) ==
    /\ GlobMatches(f.name) /\ NameMatches(f.name)
    /\ PatchVersion(f.name) > args.current_version
    /\ PatchVersion(f.name) <= args.latest_version
    /\ \A g \in patches_dir.files :
          (GlobMatches(g.name) /\ NameMatches(g.name)
             /\ PatchVersion(g.name) = PatchVersion(f.name)) => (g = f \/ PatchLess(f, g))

\* C1: whenever safe_migrate ends without returning success, the live database
\* has the content it had before the call.
C1_LiveUntouchedOnFailure ==
    (Done /\ outcome.kind # "success") => disk.live = hist.live_before

\* C2: the applier runs on the live connection at most once, and nothing is
\* executed on or changed in the live database unless the trial patch returned
\* without SQL error and the trial validation returned no error.
C2_LiveOnlyAfterTrialPassed ==
    /\ hist.live_applies <= 1
    /\ (hist.live_applies > 0 \/ hist.live_exec > 0 \/ disk.live # hist.live_before)
        => (/\ hist.trial_patched
            /\ hist.trial_validated
            /\ hist.trial_errors = << >>)

C2_Witness ==
    /\ Done
    /\ hist.live_applies = 1
    /\ hist.live_exec > 0
    /\ disk.live # hist.live_before

C4_SqlErrorAbortsAtTrial ==
    (Done /\ hist.raised # << >>)
        => (/\ hist.raised[1] = "tmp"
            /\ outcome = TrialSqlAbort(hist.verified)
            /\ hist.live_exec = 0
            /\ hist.live_applies = 0
            /\ disk.live = hist.live_before
            /\ Exists(disk.backups[hist.verified])
            /\ disk.backups[hist.verified] = hist.live_before)

\* The case of C4 that holds: the script raised on the scratch copy.
C4_TrialErrorAborts ==
    (Done /\ hist.raised # << >> /\ hist.raised[1] = "tmp")
        => (/\ outcome = TrialSqlAbort(hist.verified)
            /\ hist.live_exec = 0
            /\ hist.live_applies = 0
            /\ disk.live = hist.live_before
            /\ Exists(disk.backups[hist.verified])
            /\ disk.backups[hist.verified] = hist.live_before)

\* A script that passed the trial raised on the live connection after a
\* statement of it had changed the live file: the SQL error itself reaches the
\* caller.
C4_LiveErrorAfterTrial ==
    /\ Done
    /\ hist.raised # << >>
    /\ hist.raised[1] = "live"
    /\ hist.live_exec > 0
    /\ disk.live # hist.live_before
    /\ outcome = RawError("sqlite3.Error")
    /\ disk.backups[hist.verified] = hist.live_before

\* C5: create_verified_backup returns a path only if the digest of the copy
\* equals the digest taken of the live file before the copy; when it returns,
\* the backup exists and its content is the live file's content.
C5_BackupFidelity ==
    loc.backup_path # 0
        => (/\ Exists(disk.backups[loc.backup_path])
            /\ sha256_file(Content(disk.backups[loc.backup_path])) = loc.live_hash
            /\ (pc = "sm_snapshot" => disk.backups[loc.backup_path] = disk.live))

C5_Witness ==
    /\ pc = "sm_snapshot"
    /\ loc.backup_path = 2
    /\ disk.backups[2] = disk.live

\* C6: when create_verified_backup has handed control back, by returning or by
\* raising, a file at the chosen slot has the digest of the live file.
C6_NoUnverifiedArtifact ==
    (pc \in {"done", "sm_snapshot"} /\ loc.candidate # 0
        /\ Exists(disk.backups[loc.candidate]))
        => sha256_file(Content(disk.backups[loc.candidate])) = loc.live_hash

\* C7: when safe_migrate returns success, every non-scratch table of the
\* pre-migration snapshot exists in the live database with at least as many
\* rows as before.
C7_SuccessKeepsRows ==
    (Done /\ outcome.kind = "success")
        => \A t \in DOMAIN loc.pre_counts.val :
              ~IsScratch(t) =>
                 /\ t \in DOMAIN table_row_counts(Content(disk.live)).val
                 /\ table_row_counts(Content(disk.live)).val[t] >= loc.pre_counts.val[t]

C7_Witness ==
    /\ Done
    /\ outcome.kind = "success"
    /\ hist.live_exec > 0
    /\ table_row_counts(Content(disk.live)) # loc.pre_counts

\* C8: an invocation that is not the no-op early exit ends with success,
\* MigrationAborted or RuntimeError; stated for the invocations that reached
\* the live patch, the case the claim singles out (a SQL error raised while
\* patching the live database is not handed to the caller as a raw database
\* error).
C8_ThreeOutcomeKinds ==
    (Done /\ outcome # NoMigrationNeeded /\ hist.live_applies > 0)
        => outcome.kind \in {"success", "MigrationAborted", "RuntimeError"}

\* C9: a failure after the verified backup was created (trial SQL error, trial
\* validation failure, live patch SQL error, live validation failure) carries
\* the backup path.
C9_FailureCarriesBackupPath ==
    (Done /\ hist.verified # 0 /\ outcome.kind \notin {"success", "OSError"})
        => outcome.backup = hist.verified

\* C10: a validation abort states that the live database was not touched exactly
\* when nothing was executed on the live connection; the pre-live aborts carry
\* the statement, the abort after the live validation says that validation
\* failed on the live database.
C10_NotTouchedIffNotTouched ==
    (Done /\ outcome.kind = "MigrationAborted" /\ outcome # NoMigrationNeeded)
        => (/\ outcome.not_touched <=> hist.live_exec = 0
            /\ outcome.not_touched => disk.live = hist.live_before
            /\ outcome.head \in {TrialSqlHead, TrialLossHead} => outcome.not_touched
            /\ ~outcome.not_touched => outcome.head = LiveHead)

C10_Witness ==
    /\ Done
    /\ outcome.head = LiveHead
    /\ ~outcome.not_touched
    /\ hist.live_exec > 0

\* The call ended in the precondition checks of safe_migrate.
PreconditionFailed ==
    \/ outcome = NoMigrationNeeded
    \/ outcome = RuntimeError("Database does not exist")
    \/ outcome = RuntimeError("Patches directory does not exist")

PreconditionUnmet ==
    \/ args.current_version >= args.latest_version
    \/ ~Exists(hist.disk_before.live)
    \/ ~patches_dir.exists

\* -------------------------------------------- context.py, context notes

\* context.py line 658.
VALID_NOTE_KINDS == <<"goal", "plan", "note">>

\* The kinds a caller passes: the valid ones and one that is not.
NoteKinds == {"goal", "plan", "note", "todo"}
NoteTexts == {"first", "updated"}

\* The names callers give to contexts (test_adopt.py), and the references
\* they pass: the ids the contexts table can hold and one beyond them.
ContextNames == {"source-task", "my-copy"}
ContextRefs == 1..(Cardinality(ContextNames) + 1)

\* Lines 26-35: resolve_context_id of an integer reference.
KnownContext(db, context_ref) == context_ref \in ContextIds(db)

\* Lines 858-861: the ids of the rows the lookup by context and kind matches.
Found(db, context_id, kind) ==
    {r.id : r \in {s \in db.context_notes : s.context_id = context_id /\ s.kind = kind}}

\* The row a goal or plan is looked up by, without the lookup: only the id the
\* caller passed counts.
ExistingIdByIdOnly(db, context_id, kind, note_id) == note_id

\* Lines 856-866: for goal and plan the first row (fetchone, by rowid) of the
\* context with that kind, for a note the id the caller passed; None (here
\* NoId) otherwise.
ExistingId(db, context_id, kind, note_id) ==
    IF kind \in {"goal", "plan"}
    THEN IF Found(db, context_id, kind) # {}
         THEN MinOf(Found(db, context_id, kind))
         ELSE NoId
    ELSE note_id

\* INSERT INTO contexts (name, status, ...): the new row and its id, lastrowid.
NewContextId(db) == MaxOf(ContextIds(db)) + 1

InsertContext(db, name) ==
    [db EXCEPT !.contexts = @ \cup {ContextRow(NewContextId(db), name)}]

\* Lines 1569-1578: the notes of the source context, in the order of their
\* ids, inserted one by one for the new context.
RECURSIVE CopyNotes(_, _, _)
CopyNotes(db, source, new_context_id) ==
    IF source = {}
    THEN db
    ELSE LET note == CHOOSE r \in source : r.id = MinOf({s.id : s \in source})
         IN CopyNotes(InsertNote(db, new_context_id, note.note_md, note.kind),
                      source \ {note}, new_context_id)

\* The locals and the result of one call of a notes function.  note_id: the
\* id the call was to look the row up by (kind 'note'), NoId when it had none
\* or looked the row up by context and kind.  found: the ids of the rows the
\* lookup of lines 858-861 matched; before_ids: the ids the table held when
\* add_context_note began.
NoteCall(call, context_ref, kind, note_md, note_id, result_id, found, before_ids) ==
    [call |-> call, context_ref |-> context_ref, kind |-> kind, note_md |-> note_md,
     note_id |-> note_id, result_id |-> result_id, found |-> found,
     before_ids |-> before_ids]

\* The locals of a call that raised, or that has no note of its own.
NoNoteCall(call) == NoteCall(call, NoId, "", "", NoId, NoId, {}, {})

\* What ensure_schema can leave in context_notes of a database with one
\* context: nothing (test_notes.py make_test_db), or the goal the context had
\* (id 1) and the goal _backfill_goal_plan_notes split off the note of id 2:
\* db.py line 197 inserts it while the note is still there, so under id 3, and
\* line 223 deletes the note.
InitNoteRows ==
    { {}, {NoteRow(1, 1, "first", "goal"), NoteRow(3, 1, "updated", "goal")} }

\* began_with_notes: the contexts that held notes when they came into being;
\* last_note_id: the run gives MaxNoteId ids beyond those the table began with.
InitNotes ==
    /\ \E autoincrement \in NoteIdDeclarations, rows \in InitNoteRows :
          /\ disk = [live |-> FileOf(NotesDb(InitContexts, rows,
                                             IF autoincrement THEN MaxOf({r.id : r \in rows}) ELSE 0,
                                             autoincrement)),
                     tmp |-> NoFile,
                     backups |-> [i \in Slots |-> NoFile], backup_dir |-> FALSE]
          /\ hist = [began_with_notes |-> {r.context_id : r \in rows},
                    last_note_id |-> MaxOf({r.id : r \in rows}) + MaxNoteId]
    /\ patches_dir = [exists |-> FALSE, files |-> {}]
    /\ args = [call |-> "notes", current_version |-> 0, latest_version |-> 0]
    /\ pc = "notes"
    /\ loc = NoNoteCall("none")
    /\ ap = InitAp
    /\ conns = [live |-> "on", tmp |-> "closed"]
    /\ outcome = NoOutcome

\* Lines 834-892: add_context_note, one transaction.  An invalid kind and an
\* unknown context raise ValueError and leave the table as it is.  note_id is
\* read for kind 'note' only (the elif of line 864), so it is drawn for that
\* kind.
Note_Add ==
    /\ pc = "notes"
    /\ \E kind \in NoteKinds, context_ref \in ContextRefs, note_md \in NoteTexts :
       \E note_id \in IF kind = "note" THEN {NoId} \cup (1..hist.last_note_id) ELSE {NoId} :
         LET db == Content(disk.live)
             valid == \E i \in 1..Len(VALID_NOTE_KINDS) : VALID_NOTE_KINDS[i] = kind
             existing_id == ExistingId(db, context_ref, kind, note_id)
             by_id == IF kind = "note" THEN note_id ELSE NoId
         IN IF ~valid \/ ~KnownContext(db, context_ref)
            THEN /\ outcome' = RawError("ValueError")
                 /\ loc' = NoNoteCall("add_context_note")
                 /\ UNCHANGED disk
            ELSE IF existing_id # NoId
                 THEN /\ disk' = [disk EXCEPT !.live = FileOf(UpdateNote(db, existing_id, note_md))]
                      /\ outcome' = Success(0)
                      /\ loc' = NoteCall("add_context_note", context_ref, kind, note_md,
                                         by_id, existing_id,
                                         IF by_id = NoId THEN Found(db, context_ref, kind)
                                         ELSE {}, NoteIds(db))
                 ELSE /\ NextRowId(db) <= hist.last_note_id
                      /\ disk' = [disk EXCEPT !.live =
                                     FileOf(InsertNote(db, context_ref, note_md, kind))]
                      /\ outcome' = Success(0)
                      /\ loc' = NoteCall("add_context_note", context_ref, kind, note_md,
                                         by_id, NextRowId(db), {}, NoteIds(db))
    /\ UNCHANGED <<patches_dir, pc, args, ap, conns, hist>>

\* Lines 895-912: delete_context_note, one transaction; an unknown id raises
\* ValueError.
Note_Delete ==
    /\ pc = "notes"
    /\ \E note_id \in 1..hist.last_note_id :
         LET db == Content(disk.live)
         IN /\ loc' = NoteCall("delete_context_note", NoId, "", "", note_id, NoId, {}, {})
            /\ IF note_id \notin NoteIds(db)
               THEN outcome' = RawError("ValueError") /\ UNCHANGED disk
               ELSE /\ disk' = [disk EXCEPT !.live = FileOf(DeleteNote(db, note_id))]
                    /\ outcome' = Success(0)
    /\ UNCHANGED <<patches_dir, pc, args, ap, conns, hist>>

\* Lines 267-379: create_context (the public create_task of line 1724), as far
\* as the notes go: a new row of contexts and no note.  A name the project
\* has already is refused by the unique index of db.py line 124.
Note_CreateContext ==
    /\ pc = "notes"
    /\ \E name \in ContextNames :
         LET db == Content(disk.live)
         IN IF name \in {c.name : c \in db.contexts}
            THEN /\ outcome' = RawError("IntegrityError")
                 /\ loc' = NoNoteCall("create_context")
                 /\ UNCHANGED disk
            ELSE /\ disk' = [disk EXCEPT !.live = FileOf(InsertContext(db, name))]
                 /\ outcome' = Success(0)
                 /\ loc' = NoteCall("create_context", NoId, "", "", NoId, NewContextId(db),
                                    {}, {})
    /\ UNCHANGED <<patches_dir, pc, args, ap, conns, hist>>

\* Lines 1502-1689: adopt_context (the public adopt_task), as far as the notes
\* go, one transaction: an unknown source and a taken target name (the
\* source's own when new_name is None) raise ValueError; otherwise a new
\* context holds a copy of every note of the source.
Note_AdoptContext ==
    /\ pc = "notes"
    /\ \E source_name \in ContextRefs, new_name \in {NoName} \cup ContextNames :
         LET db == Content(disk.live)
             source_row == CHOOSE c \in db.contexts : c.id = source_name
             target_name == IF new_name # NoName THEN new_name ELSE source_row.name
             source_notes == {r \in db.context_notes : r.context_id = source_name}
             copied == CopyNotes(InsertContext(db, target_name), source_notes,
                                 NewContextId(db))
         IN IF \/ ~KnownContext(db, source_name)
               \/ target_name \in {c.name : c \in db.contexts}
            THEN /\ outcome' = RawError("ValueError")
                 /\ loc' = NoNoteCall("adopt_context")
                 /\ UNCHANGED <<disk, hist>>
            ELSE /\ MaxOf(NoteIds(copied)) <= hist.last_note_id
                 /\ disk' = [disk EXCEPT !.live = FileOf(copied)]
                 /\ hist' = [hist EXCEPT !.began_with_notes =
                               IF source_notes # {} THEN @ \cup {NewContextId(db)} ELSE @]
                 /\ outcome' = Success(0)
                 /\ loc' = NoteCall("adopt_context", source_name, "", "", NoId,
                                    NewContextId(db), {}, {})
    /\ UNCHANGED <<patches_dir, pc, args, ap, conns>>

NextNotes == Note_Add \/ Note_Delete \/ Note_CreateContext \/ Note_AdoptContext

SpecNotes == InitNotes /\ [][NextNotes]_vars

\* C11: when a precondition of safe_migrate is unmet, the call ends in the
\* checks with the disk as it found it (no .backups directory, no backup, no
\* scratch file) and without a connection ever opened; the version case is the
\* no-op signal, a missing path a RuntimeError.  This holds for a second call
\* too, in particular one with current_version = latest_version after a success.
C11_PreconditionFailureTouchesNothing ==
    (Done /\ args.call = "safe_migrate" /\ PreconditionUnmet)
        => (/\ PreconditionFailed
            /\ disk = hist.disk_before
            /\ loc = InitLoc
            /\ ap = InitAp
            /\ hist.snapshots = 0 /\ hist.live_applies = 0 /\ hist.live_exec = 0
            /\ conns = [live |-> "closed", tmp |-> "closed"]
            /\ (args.current_version >= args.latest_version <=> outcome = NoMigrationNeeded)
            /\ (args.current_version < args.latest_version
                  => outcome.kind = "RuntimeError"))

C11_Witness ==
    /\ Done
    /\ hist.calls = 2
    /\ hist.prev = "success"
    /\ args.current_version = args.latest_version
    /\ outcome = NoMigrationNeeded
    /\ Len(hist.returned) = 1
    /\ hist.disk_before.backups[hist.returned[1].slot] = hist.returned[1].file
    /\ Content(disk.live).ver = args.latest_version

\* The name is patch-<N>.sql, whole.
IsPatchName(name) ==
    /\ NameMatches(name)
    /\ Len(name) = Len(PatchPrefix) + DigitRun(name, Len(PatchPrefix) + 1) + Len(SqlSuffix)

\* The versions of the patch files of the directory within (v_old, v_new].
VersionsWithin(v_old, v_new) ==
    {PatchVersion(f.name) :
        f \in {g \in patches_dir.files :
                 /\ IsPatchName(g.name)
                 /\ v_old < PatchVersion(g.name) /\ PatchVersion(g.name) <= v_new}}

Greatest(S) == CHOOSE v \in S : \A w \in S : w <= v

MigrationSucceeded ==
    Done /\ args.call = "safe_migrate" /\ outcome = Success(loc.backup_path)

\* C12: after a successful migration from v_old to v_new the schema version
\* recorded in the live database is the greatest version of a patch file of the
\* directory with v_old < v <= v_new.
C12_VersionIsGreatestApplied ==
    (MigrationSucceeded
       /\ VersionsWithin(args.current_version, args.latest_version) # {})
        => Content(disk.live).ver =
              Greatest(VersionsWithin(args.current_version, args.latest_version))

\* A migration over two patches of which the later one lies above v_new, and
\* one over two patches that both lie within the range.
C12_Witness ==
    /\ MigrationSucceeded
    /\ \/ /\ args.current_version = 1 /\ args.latest_version = 2
          /\ {PatchVersion(f.name) : f \in patches_dir.files} = {2, 3}
          /\ Content(disk.live).ver = 2
       \/ /\ args.current_version = 1 /\ args.latest_version = 3
          /\ VersionsWithin(1, 3) = {2, 3}
          /\ Content(disk.live).ver = 3

\* The call has left the trial phase: it ended, or it is in steps 6 - 7.
TrialLeft ==
    \/ Done
    \/ pc \in {"sm_live_patch", "sm_live_except", "sm_live_snapshot", "sm_live_validate"}
    \/ ap.conn = "live"

\* C13: on every path out of the trial phase (trial SQL error, trial validation
\* failure, trial passed, failure of the copy) the scratch copy no longer exists
\* and its connection is closed.
C13_ScratchCopyRemoved ==
    TrialLeft => (~Exists(disk.tmp) /\ conns.tmp = "closed")

\* A trial that ran the patches on the scratch copy and was aborted by the
\* validation.
C13_Witness ==
    /\ Done
    /\ hist.trial_patched /\ hist.trial_validated
    /\ hist.trial_errors # << >>
    /\ outcome = TrialLossAbort(hist.trial_errors, loc.backup_path)
    /\ ~Exists(disk.tmp)

\* C16: from the moment create_verified_backup has returned, the backup file
\* exists and holds the content the live database had before the migration, in
\* every later state and at every outcome (success, trial abort, live patch
\* error, live validation abort).
C16_BackupImmutable ==
    (args.call = "safe_migrate" /\ hist.verified # 0)
        => (/\ disk.backup_dir
            /\ Exists(disk.backups[hist.verified])
            /\ disk.backups[hist.verified] = hist.live_before
            /\ loc.backup_path = hist.verified)

\* The live database was changed by the patch and the call ended in the live
\* validation abort: the backup still holds the content from before.
C16_Witness ==
    /\ Done
    /\ hist.verified # 0
    /\ outcome.head = LiveHead
    /\ disk.live # hist.live_before
    /\ disk.backups[hist.verified] = hist.live_before

BackupReturned ==
    Done /\ args.call = "create_verified_backup" /\ outcome.kind = "success"

\* C14: each successful create_verified_backup call on the same file and date
\* returns the first slot of a..z that was unused when it began; the returned
\* paths are pairwise distinct, and every backup returned earlier is still on
\* disk with the content it was returned with.
C14_SlotsDistinctNothingOverwritten ==
    /\ BackupReturned =>
          /\ outcome.backup # 0
          /\ outcome.backup = FirstUnusedSlot(hist.disk_before.backups)
          /\ ~Exists(hist.disk_before.backups[outcome.backup])
          /\ hist.returned[Len(hist.returned)].slot = outcome.backup
    /\ \A i, j \in 1..Len(hist.returned) :
          i # j => hist.returned[i].slot # hist.returned[j].slot
    /\ \A i \in 1..Len(hist.returned) :
          disk.backups[hist.returned[i].slot] = hist.returned[i].file
    /\ \A s \in Slots :
          Exists(hist.disk_before.backups[s]) => disk.backups[s] = hist.disk_before.backups[s]

\* Two calls returned, with a write to the database in between: the second took
\* the slot after a gap, the first backup is as it was.
C14_Witness ==
    /\ BackupReturned
    /\ Len(hist.returned) = 2
    /\ hist.returned[1].slot = 2 /\ hist.returned[2].slot = 4
    /\ hist.returned[1].file # hist.returned[2].file
    /\ disk.backups[2] = hist.returned[1].file

\* C15: create_verified_backup on a missing database raises before it makes
\* the .backups directory, and with all 26 slots of the day taken it raises the
\* exhausted-slots error without copying; in both cases the disk is as the call
\* found it.
C15_InfrastructureFailuresChangeNothing ==
    (Done /\ args.call = "create_verified_backup")
        => /\ ~Exists(hist.disk_before.live)
                => /\ outcome = RuntimeError("Database file does not exist")
                   /\ disk = hist.disk_before
           /\ (Exists(hist.disk_before.live)
               /\ FirstUnusedSlot(hist.disk_before.backups) = 0)
                => /\ outcome = RuntimeError("Exhausted backup slots")
                   /\ disk = hist.disk_before
           /\ outcome.kind = "RuntimeError" /\ outcome.head # "Backup checksum mismatch"
                => disk = hist.disk_before

\* The call that follows the one which took the last free slot.
C15_Witness ==
    /\ Done /\ args.call = "create_verified_backup"
    /\ hist.calls = 2 /\ hist.prev = "success"
    /\ hist.returned[1].slot = Len(AsciiLowercase)
    /\ outcome = RuntimeError("Exhausted backup slots")
    /\ disk = hist.disk_before

\* A missing database and no .backups directory: the call raises and there is
\* still no directory.
C15_MissingDb ==
    /\ Done /\ args.call = "create_verified_backup"
    /\ outcome = RuntimeError("Database file does not exist")
    /\ ~disk.backup_dir

\* C17: when ensure_schema finds the recorded version behind the latest one it
\* migrates through safe_migrate, so that no patch statement runs on the live
\* database unless a verified backup of the database as it was lies in .backups.
C17_EnsureSchemaBacksUpFirst ==
    (args.call = "ensure_schema" /\ hist.live_exec > 0)
        => \E slot \in Slots : disk.backups[slot] = hist.live_before

Validated == Done /\ args.call = "validate_row_counts"

\* The number of errors of a list that name the table.
ErrorsNaming(errors, table) ==
    Cardinality({i \in 1..Len(errors) : errors[i].table = table})

\* C18: validate_row_counts returns the empty list whenever every table of
\* `before` is a scratch table (suffix _new) or is present in `after` with at
\* least as many rows; tables only in `after` are never reported.
C18_NoErrorWithoutLoss ==
    Validated =>
        /\ (\A t \in DOMAIN loc.pre_counts.val :
               \/ IsScratch(t)
               \/ (t \in DOMAIN loc.post_counts.val
                   /\ loc.post_counts.val[t] >= loc.pre_counts.val[t]))
               => outcome.errors = << >>
        /\ \A i \in 1..Len(outcome.errors) :
               outcome.errors[i].table \in DOMAIN loc.pre_counts.val

\* A scratch table with rows vanished, a table grew, a table is new in `after`.
C18_Witness ==
    /\ Validated
    /\ DOMAIN loc.pre_counts.val = {TName, TNewName}
    /\ DOMAIN loc.post_counts.val = {TName, UName}
    /\ loc.pre_counts.val[TNewName] > 0
    /\ loc.post_counts.val[TName] > loc.pre_counts.val[TName]
    /\ outcome.errors = << >>

\* C19: validate_row_counts returns exactly one error for each non-scratch table
\* of `before` that is absent from `after` or has fewer rows there, and none for
\* any other table; the error is the MISSING one when the table is absent (also
\* when it held 0 rows), with the count it had, and the rows-lost one, with both
\* counts, when the count fell.
C19_OneErrorPerOffendingTable ==
    Validated =>
        LET before == loc.pre_counts
            after == loc.post_counts
            errors == outcome.errors
        IN /\ \A t \in Tables \cup {SchemaVersionTable} :
                 ErrorsNaming(errors, t) = IF t \in Offending(before, after) THEN 1 ELSE 0
           /\ Len(errors) = Cardinality(Offending(before, after))
           /\ \A i \in 1..Len(errors) :
                 LET e == errors[i]
                 IN IF e.table \notin DOMAIN after.val
                    THEN e = MissingError(e.table, before.val[e.table])
                    ELSE /\ after.val[e.table] < before.val[e.table]
                         /\ e = LostRowsError(e.table, before.val[e.table],
                                              after.val[e.table])

\* An empty table vanished, another lost rows, a scratch table was dropped.
C19_Witness ==
    /\ Validated
    /\ loc.pre_counts.keys = <<UName, TNewName, TName>>
    /\ DOMAIN loc.post_counts.val = {UName}
    /\ loc.pre_counts.val[TName] = 0
    /\ loc.post_counts.val[UName] < loc.pre_counts.val[UName]
    /\ Len(outcome.errors) = 2
    /\ outcome.errors[1].kind = "lost rows"
    /\ outcome.errors[2] = MissingError(TName, 0)

NotesOf(rows, context_id, kind) ==
    {r \in rows : r.context_id = context_id /\ r.kind = kind}

Added == args.call = "notes" /\ loc.call = "add_context_note" /\ outcome.kind = "success"

\* The contexts that came into being without notes.
BeganWithoutNotes == ContextIds(Content(disk.live)) \ hist.began_with_notes

C20_TwoGoalsAfterBackfill ==
    /\ Added
    /\ loc.kind = "goal"
    /\ loc.context_ref \in hist.began_with_notes
    /\ Cardinality(loc.found) = 2
    /\ loc.result_id = MinOf(loc.found)
    /\ Cardinality(NotesOf(Content(disk.live).context_notes, loc.context_ref, "goal")) = 2

\* ensure_schema on the fixture of a goal (id 1) and a note with a Goal section
\* (id 2): the backfill leaves the context two goal rows, ids 1 and 3, and the
\* largest id given is 3.  This is the table InitNoteRows starts from.
C20_BackfillLeavesTwoGoals ==
    /\ args.call = "ensure_schema"
    /\ Done
    /\ outcome = Success(0)
    /\ LET notes == Content(disk.live).notes
       IN /\ {r.id : r \in notes.context_notes} = {1, 3}
          /\ \A r \in notes.context_notes : r.kind = "goal" /\ r.context_id = 1
          /\ notes.last_id = 3

\* A context created beside the one with two goals: its first goal is a new
\* row under the id after the backfilled ones, and set again it is updated.
C20_GoalAfterBackfill ==
    /\ Added
    /\ loc.kind = "goal"
    /\ loc.context_ref \in BeganWithoutNotes
    /\ loc.found = {loc.result_id}
    /\ loc.result_id = 4
    /\ {1, 3} \subseteq loc.before_ids

\* A context adopted from one with a goal: its goal, set again, is updated.
C20_AdoptedGoalUpdated ==
    /\ Added
    /\ loc.kind = "goal"
    /\ loc.context_ref \notin {c.id : c \in InitContexts}
    /\ loc.result_id # NoId
    /\ loc.found # {}

\* A patch is being, or has been, executed on the scratch copy or on the live
\* database, or a validation has run.
PatchingBegun ==
    \/ ap.conn # "none"
    \/ Exists(disk.tmp)
    \/ hist.trial_patched \/ hist.trial_validated
    \/ hist.live_exec > 0 \/ hist.live_applies > 0

\* C21: in a safe_migrate call the 'before' row counts are taken once, after the
\* backup is verified and before any patch runs on the scratch copy or on the
\* live database; they are the counts of the untouched live database, and the
\* trial validation and the live validation both compare against them.
C21_SnapshotOnceBetweenBackupAndPatch ==
    args.call = "safe_migrate" =>
        /\ hist.snapshots <= 1
        /\ hist.snapshots = 1 => (hist.verified # 0 /\ loc.backup_path = hist.verified)
        /\ PatchingBegun => hist.snapshots = 1
        /\ hist.snapshots = 1
              => loc.pre_counts = table_row_counts(Content(hist.live_before))
        /\ hist.trial_validated
              => hist.trial_errors = validate_row_counts(loc.pre_counts, loc.post_counts)
        /\ (Done /\ hist.live_applies > 0 /\ outcome.kind \in {"success", "MigrationAborted"})
              => outcome.errors = validate_row_counts(loc.pre_counts, loc.post_live_counts)

\* A migration that changed the live database and passed both validations.
C21_Witness ==
    /\ MigrationSucceeded
    /\ hist.snapshots = 1
    /\ hist.trial_validated
    /\ disk.live # hist.live_before
    /\ loc.post_live_counts # loc.pre_counts
    /\ loc.pre_counts = table_row_counts(Content(hist.live_before))

\* The applier has returned to safe_migrate from its run on ap.conn.
ApplierReturned ==
    \/ ap.conn = "tmp" /\ pc = "sm_trial_snapshot"
    \/ ap.conn = "live" /\ pc = "sm_live_snapshot"

\* The names of the files the applier executed on ap.conn, in order.
RanNames ==
    LET on == SelectSeq(hist.ran, LAMBDA r : r.conn = ap.conn)
    IN [i \in 1..Len(on) |-> on[i].name]

\* C22: for any files in patches_dir the applier executes exactly the files
\* named patch-<N>.sql with current_version < N <= target_version, each once, in
\* strictly increasing version order, and no file with another name.
C22_ExactlyEligiblePatchesInOrder ==
    (args.call = "safe_migrate" /\ ApplierReturned) =>
        /\ {RanNames[i] : i \in 1..Len(RanNames)}
              = {f.name : f \in {g \in patches_dir.files :
                                   /\ IsPatchName(g.name)
                                   /\ args.current_version < PatchVersion(g.name)
                                   /\ PatchVersion(g.name) <= args.latest_version}}
        /\ \A i, j \in 1..Len(RanNames) :
              i < j => PatchVersion(RanNames[i]) < PatchVersion(RanNames[j])

\* The value the applier returns: its current_version when the loop ends.
ReturnedVersion == ap.cur

\* C23: the applier returns the highest version among the patches it executed,
\* or current_version as given when it executed none; the value lies between
\* current_version and target_version, and a directory without an eligible patch
\* makes the applier return, not raise.
C23_ReturnsHighestExecuted ==
    args.call = "safe_migrate" =>
        /\ ApplierReturned =>
              /\ ReturnedVersion =
                    IF RanNames = << >> THEN args.current_version
                    ELSE Greatest({PatchVersion(RanNames[i]) : i \in 1..Len(RanNames)})
              /\ args.current_version <= ReturnedVersion
              /\ ReturnedVersion <= args.latest_version
        /\ (\A f \in patches_dir.files : ~Runs(f))
              => pc \notin {"sm_trial_except", "sm_live_except"}

\* The live run executed two patches and returned the version of the second.
C23_Witness ==
    /\ ApplierReturned /\ ap.conn = "live"
    /\ Len(RanNames) = 2
    /\ args.current_version = 1
    /\ ReturnedVersion = 3

\* The live run found no eligible patch and returned current_version.
C23_NoneEligible ==
    /\ ApplierReturned /\ ap.conn = "live"
    /\ patches_dir.files # {}
    /\ RanNames = << >>
    /\ ReturnedVersion = args.current_version

\* C24: a patch's effects and the advance of the recorded schema version to the
\* patch's version are one atomic step: in no state of the live database are
\* effects of a patch committed while the recorded version is below that
\* patch's version.
C24_PatchAndVersionAtomic ==
    args.call = "safe_migrate" =>
        \A i \in 1..Len(hist.ran) :
            LET r == hist.ran[i]
            IN (r.conn = "live" /\ Content(disk.live) # r.before)
                  => Content(disk.live).ver >= PatchVersion(r.name)

\* The applier is through with a patch on ap.conn: the script and the version
\* are done, or the script raised.
PatchLeft ==
    /\ ap.conn # "none"
    /\ RanNames # << >>
    /\ pc \in {"ap_version", "ap_loop", "sm_trial_except", "sm_live_except",
               "sm_trial_snapshot", "sm_live_snapshot"}

\* C25: foreign-key enforcement is off only while a patch script runs: whenever
\* the applier has stopped working on a patch, because the script completed or
\* because it raised a SQL error, enforcement on that connection is on.
C25_ForeignKeysRestored ==
    (args.call = "safe_migrate" /\ PatchLeft) => conns[ap.conn] = "on"

\* C26: when the script of patch k raises a SQL error the applier passes the
\* error on to its caller (the handler of safe_migrate is next, and the call
\* does not end in success), k is the last patch it executed on that
\* connection, and the recorded schema version is as it was before k.
C26_ScriptErrorPropagates ==
    (args.call = "safe_migrate" /\ hist.raised # << >>) =>
        LET conn == hist.raised[1]
            k == hist.raised[2]
            on == SelectSeq(hist.ran, LAMBDA r : r.conn = conn)
        IN /\ pc \in {IF conn = "tmp" THEN "sm_trial_except" ELSE "sm_live_except", "done"}
           /\ Done => outcome = IF conn = "tmp" THEN TrialSqlAbort(loc.backup_path)
                                ELSE RawError("sqlite3.Error")
           /\ on # << >> /\ on[Len(on)].name = k
           /\ \A i \in 1..Len(on) : PatchVersion(on[i].name) <= PatchVersion(k)
           /\ ap.cur < PatchVersion(k)
           /\ Exists(disk[conn]) =>
                 /\ Content(disk[conn]).ver = on[Len(on)].before.ver
                 /\ Content(disk[conn]).ver < PatchVersion(k)

\* Patch 3 failed on the scratch copy after patch 2 had been applied there and
\* after a statement of its own: the recorded version is 2 and the error is at
\* the handler of safe_migrate.
C26_Witness ==
    /\ pc = "sm_trial_except"
    /\ hist.raised # << >>
    /\ hist.raised[1] = "tmp"
    /\ PatchVersion(hist.raised[2]) = 3
    /\ Len(RanNames) = 2
    /\ ap.idx = 2
    /\ Content(disk.tmp).ver = 2

\* A script failed on the live database: the raw SQL error reached the caller.
C26_LiveRaise ==
    /\ Done
    /\ hist.raised # << >>
    /\ hist.raised[1] = "live"
    /\ outcome = RawError("sqlite3.Error")

\* The connections safe_migrate holds open.
OpenConns == {c \in {"live", "tmp"} : conns[c] # "closed"}

\* The scratch trial runs: the scratch file exists or its connection is open.
TrialRunning == Exists(disk.tmp) \/ conns.tmp # "closed"

\* C27 as stated: at most one connection is open at any moment; the live
\* connection serves one phase (snapshot, patch, post-patch snapshot) and is
\* closed when the next phase begins; none is open during the scratch trial;
\* all are closed when the call has returned or raised.
C27_OneConnectionOnePhase ==
    args.call = "safe_migrate" =>
        /\ Cardinality(OpenConns) <= 1
        /\ pc \in {"sm_trial_copy", "sm_live_patch", "sm_live_snapshot"}
              => conns.live = "closed"
        /\ TrialRunning => conns.live = "closed"
        /\ Done => OpenConns = {}

\* C27, amended: at most one connection is open at any moment; the live
\* connection is opened once for the snapshot and closed before the trial, and
\* once more for the live patch together with the post-patch snapshot, which
\* reads through the connection the patches ran on; no live connection is open
\* during the scratch trial, and every connection is closed when the call has
\* returned or raised.
C27_OneConnectionAtATime ==
    args.call = "safe_migrate" =>
        /\ Cardinality(OpenConns) <= 1
        /\ pc \in {"sm_trial_copy", "sm_live_patch", "sm_live_validate"}
              => conns.live = "closed"
        /\ pc = "sm_live_snapshot" => (conns.live # "closed" /\ ap.conn = "live")
        /\ conns.live # "closed" =>
              \/ pc = "sm_snapshot_counts"
              \/ ap.conn = "live" /\ hist.live_applies = 1
        /\ TrialRunning => conns.live = "closed"
        /\ Done => OpenConns = {}

\* The post-patch snapshot is about to be read through the connection the live
\* patches ran on, after a trial that passed and whose connection is closed.
C27_Witness ==
    /\ pc = "sm_live_snapshot"
    /\ hist.trial_validated
    /\ hist.live_exec > 0
    /\ OpenConns = {"live"}

\* The snapshot connection is open before the trial.
C27_SnapshotOpen ==
    /\ pc = "sm_snapshot_counts"
    /\ OpenConns = {"live"}

\* ------------------------------------- create_verified_backup beside a writer

\* sha256_file reads the file in blocks of 65536 bytes, and the copy moves it
\* block by block: the model file has two blocks.  The first holds the header
\* (change counter, journal mode), the schema and the tables t and t_new, the
\* second the row pages of the table u.
Block2(content) == <<content.rows[UName], content.pages[UName]>>

\* The file whose first block is that of `first` and whose second block is that
\* of `second`.
Blocks(first, second) ==
    [first EXCEPT !.rows[UName] = second.rows[UName], !.pages[UName] = second.pages[UName]]

InitWriterHist(d) ==
    [verified |-> 0, returned |-> << >>, writes |-> 0, initial |-> d.live,
     during_digest |-> {}, after_digest |-> FALSE, after_copy |-> FALSE]

InitWriter ==
    /\ \E db \in InitDbs, b \in InitBackups, present \in BOOLEAN :
          disk = [live |-> IF present THEN FileOf(db) ELSE NoFile, tmp |-> NoFile,
                  backups |-> b.files, backup_dir |-> b.dir]
    /\ patches_dir = [exists |-> FALSE, files |-> {}]
    /\ args = [call |-> "create_verified_backup", current_version |-> 1, latest_version |-> 1]
    /\ pc = "create_verified_backup"
    /\ loc = [candidate |-> 0, backup_path |-> 0, live_hash |-> << >>, chunk |-> << >>]
    /\ ap = InitAp
    /\ conns = [live |-> "closed", tmp |-> "closed"]
    /\ outcome = NoOutcome
    /\ hist = InitWriterHist(disk)

\* Lines 61-81 and the first f.read(65536) of sha256_file (lines 28-34).
CVB_StartFirstChunk ==
    /\ pc = "create_verified_backup"
    /\ IF ~Exists(disk.live)
       THEN /\ Raise(RuntimeError("Database file does not exist"))
            /\ UNCHANGED <<disk, loc, hist>>
       ELSE LET slot == FirstUnusedSlot(disk.backups)
            IN /\ disk' = [disk EXCEPT !.backup_dir = TRUE]
               /\ IF slot = 0
                  THEN /\ Raise(RuntimeError("Exhausted backup slots"))
                       /\ UNCHANGED <<loc, hist>>
                  ELSE /\ loc' = [loc EXCEPT !.candidate = slot,
                                             !.chunk = << Content(disk.live) >>]
                       /\ hist' = [hist EXCEPT !.during_digest = {Content(disk.live)}]
                       /\ pc' = "cvb_digest"
                       /\ UNCHANGED outcome
    /\ UNCHANGED <<patches_dir, args, ap, conns>>

\* Lines 30-35: the second read of sha256_file, the end of file, hexdigest().
CVB_DigestRest ==
    /\ pc = "cvb_digest"
    /\ loc' = [loc EXCEPT !.live_hash = sha256_file(Blocks(loc.chunk[1], Content(disk.live))),
                          !.chunk = << >>]
    /\ pc' = "cvb_copy"
    /\ UNCHANGED <<disk, patches_dir, args, ap, conns, outcome, hist>>

\* Line 84: shutil.copy2 has moved the first block; the destination is a
\* truncated file.
CVB_CopyFirstChunk ==
    /\ pc = "cvb_copy"
    /\ loc' = [loc EXCEPT !.chunk = << Content(disk.live) >>]
    /\ disk' = [disk EXCEPT !.backups[loc.candidate] =
                      FileOf([Content(disk.live) EXCEPT !.damage = 2])]
    /\ pc' = "cvb_copy_rest"
    /\ UNCHANGED <<patches_dir, args, ap, conns, outcome, hist>>

\* Line 84: shutil.copy2 moves the second block and returns.
CVB_CopyRest ==
    /\ pc = "cvb_copy_rest"
    /\ disk' = [disk EXCEPT !.backups[loc.candidate] =
                      FileOf(Blocks(loc.chunk[1], Content(disk.live)))]
    /\ loc' = [loc EXCEPT !.chunk = << >>]
    /\ pc' = "cvb_verify"
    /\ UNCHANGED <<patches_dir, args, ap, conns, outcome, hist>>

\* The connections another process can write the live file through.
Writers == {"sqlite3.connect", "db.connect"}

\* What a committed transaction can leave in the row pages of table t, as
\* <<row count, bytes>>: what is there, the bytes the backup started with
\* (DELETE FROM t and the same rows inserted again, an UPDATE taken back), or
\* bytes the file has not had before, with any row count.
PageChoices(live, t) ==
    {<<live.rows[t], live.pages[t]>>}
    \cup {<<Content(hist.initial).rows[t], Content(hist.initial).pages[t]>>}
    \cup {<<n, hist.writes + 1>> : n \in 0..MaxInitRows}

\* Another process opens the live file and, with `commits`, commits one write
\* transaction while the backup is taken; nothing of lines 81-87 locks the
\* file.  Opened with db.connect, a file in rollback mode is switched to
\* write-ahead mode, a rewrite of the header also when nothing is committed
\* after it.  The transaction leaves the row pages of t in the first block
\* and of u in the second as PageChoices says.  Committed in rollback mode it
\* advances the change counter of the header, also when it leaves the row
\* pages as they were (DELETE FROM t on an empty t); in write-ahead mode the
\* header stays as it is.  A process that leaves the file byte for byte as
\* it was has not written.
Writer_Write ==
    /\ pc \in {"cvb_digest", "cvb_copy", "cvb_copy_rest", "cvb_verify"}
    /\ hist.writes < MaxWrites
    /\ \E by \in Writers, commits \in BOOLEAN :
       \E t \in PageChoices(Content(disk.live), TName),
          u \in PageChoices(Content(disk.live), UName) :
          LET live == Content(disk.live)
              opened == IF by = "db.connect" THEN connect(live) ELSE live
              wrote == IF commits
                       THEN [opened EXCEPT !.rows[TName] = t[1], !.pages[TName] = t[2],
                                           !.rows[UName] = u[1], !.pages[UName] = u[2]]
                       ELSE opened
              new == IF commits /\ opened.journal = "delete"
                     THEN Written(wrote) ELSE wrote
          IN /\ new # live
             /\ disk' = [disk EXCEPT !.live = FileOf(new)]
             /\ hist' = [hist EXCEPT
                            !.writes = @ + 1,
                            !.during_digest = IF pc = "cvb_digest" THEN @ \cup {new} ELSE @,
                            !.after_digest = @ \/ pc \in {"cvb_copy", "cvb_copy_rest"},
                            !.after_copy = @ \/ pc = "cvb_verify"]
    /\ UNCHANGED <<patches_dir, pc, args, loc, ap, conns, outcome>>

NextWriter ==
    \/ CVB_StartFirstChunk
    \/ CVB_DigestRest
    \/ CVB_CopyFirstChunk
    \/ CVB_CopyRest
    \/ CVB_Verify
    \/ Writer_Write

SpecWriter == InitWriter /\ [][NextWriter]_vars

\* C28: a write to the live file after the live digest was computed and before
\* the copy completed makes the call fail with a checksum mismatch and leaves
\* no file at the slot; and under every interleaving a returned backup holds
\* the live content as it was while the digest was taken.
C28_WriterCaughtByChecksum ==
    (args.call = "create_verified_backup" /\ Done) =>
        /\ hist.after_digest =>
              /\ outcome = RuntimeError("Backup checksum mismatch")
              /\ ~Exists(disk.backups[loc.candidate])
        /\ outcome.kind = "success" =>
              Content(disk.backups[loc.backup_path]) \in hist.during_digest

\* The second half of C28 alone: a returned backup holds the live content as it
\* was while the digest was taken.
C28_ReturnedBackupIsDigestedContent ==
    (args.call = "create_verified_backup" /\ Done /\ outcome.kind = "success") =>
        Content(disk.backups[loc.backup_path]) \in hist.during_digest

\* A write that reached the copy: checksum mismatch, nothing left at the slot.
C28_MismatchCaught ==
    /\ Done
    /\ hist.after_digest
    /\ outcome = RuntimeError("Backup checksum mismatch")
    /\ ~Exists(disk.backups[loc.candidate])

\* A commit in rollback mode that left every row page as it was and advanced
\* the change counter, after the copy had moved the first block: the call
\* returned a backup that is not the live file.
C28_CounterOnlyCommitMissed ==
    /\ Done
    /\ outcome.kind = "success"
    /\ hist.after_digest
    /\ Content(disk.live) = Written(Content(hist.initial))
    /\ Content(disk.backups[loc.backup_path]) = Content(hist.initial)

\* No statement of the directory's scripts draws on random().
Deterministic ==
    \A f \in patches_dir.files :
        \A i \in 1..Len(f.script) :
            f.script[i].op \notin {"delete_random", "insert_random_key"}

\* The patches handed to executescript on one connection, in order.
RanOn(conn) == SelectSeq(hist.ran, LAMBDA r : r.conn = conn)

TrialPassed == hist.trial_validated /\ hist.trial_errors = << >>

\* C29: with deterministic scripts the trial rehearses the live run: the scratch
\* copy starts with the live content; the live run executes the patches the
\* trial executed, in the same order, each on the content the trial had before
\* it, and all of them when it completes; the row counts after the live run are
\* those after the trial; and once the trial has passed, no SQL error and no
\* validation abort follows: the call ends in success.
C29_TrialRehearsesLiveRun ==
    (args.call = "safe_migrate" /\ Deterministic) =>
        /\ (pc = "ap_discover" /\ ap.conn = "tmp") => disk.tmp = disk.live
        /\ Len(RanOn("live")) <= Len(RanOn("tmp"))
        /\ \A i \in 1..Len(RanOn("live")) : RanOn("live")[i] =
                                                [RanOn("tmp")[i] EXCEPT !.conn = "live"]
        /\ pc \in {"sm_live_snapshot", "sm_live_validate"}
              => Len(RanOn("live")) = Len(RanOn("tmp"))
        /\ pc = "sm_live_validate" => loc.post_live_counts = loc.post_counts
        /\ TrialPassed => pc # "sm_live_except"
        /\ (Done /\ TrialPassed) => outcome = Success(loc.backup_path)

\* A trial of two deterministic patches passed, the live run executed both and
\* changed the row counts, and the live snapshot has been taken.
C29_Witness ==
    /\ Deterministic
    /\ pc = "sm_live_validate"
    /\ TrialPassed
    /\ Len(RanOn("live")) = 2
    /\ loc.post_live_counts # loc.pre_counts

\* With a script that draws on random() the live run can lose rows the trial
\* kept: the abort after the live validation is reachable.
C29_RandomScriptLiveAbort ==
    /\ ~Deterministic
    /\ Done
    /\ TrialPassed
    /\ outcome.head = LiveHead

\* ------------------------------------------------ context.py, the task steps

STATUS_PLANNED == "planned"
STATUS_STARTED == "started"
STATUS_COMPLETE == "complete"
STATUS_DELETED == "deleted"

\* A row of tasks; its id is its place in the table (rows are never removed,
\* so cur.lastrowid is the number of rows).
TaskRow(context_id, task_number, status, is_deleted) ==
    [context_id |-> context_id, task_number |-> task_number, status |-> status,
     is_deleted |-> is_deleted]

\* The part of the database the task functions read and write: the rows of
\* contexts and of tasks, and context_state.active_task_id of every context.
TasksDb(contexts, tasks, active_task_id) ==
    [contexts |-> contexts, tasks |-> tasks, active_task_id |-> active_task_id]

TaskIds(db) == 1..Len(db.tasks)

TasksOf(db, context_id) == {i \in TaskIds(db) : db.tasks[i].context_id = context_id}

\* SELECT id, is_deleted FROM tasks WHERE context_id = ? AND task_number = ?
TaskByNumber(db, context_id, task_number) ==
    LET found == {i \in TasksOf(db, context_id) : db.tasks[i].task_number = task_number}
    IN IF found = {} THEN NoId ELSE MinOf(found)

\* SELECT MAX(task_number) FROM tasks WHERE context_id = ?, plus one.
NextTaskNumber(db, context_id) ==
    MaxOf({db.tasks[i].task_number : i \in TasksOf(db, context_id)}) + 1

\* ORDER BY task_number LIMIT 1 over the rows `found`.
FirstByNumber(db, found) ==
    MinOf({i \in found : \A j \in found : db.tasks[i].task_number <= db.tasks[j].task_number})

\* ORDER BY task_number DESC LIMIT 1 over the rows `found`.
LastByNumber(db, found) ==
    MinOf({i \in found : \A j \in found : db.tasks[j].task_number <= db.tasks[i].task_number})

\* Lines 1029-1033: SELECT id, task_number FROM tasks WHERE context_id = ? AND
\* status != 'deleted' ORDER BY task_number LIMIT 1.
Replacement(db, context_id) ==
    LET found == {i \in TasksOf(db, context_id) : db.tasks[i].status # STATUS_DELETED}
    IN IF found = {} THEN NoId ELSE FirstByNumber(db, found)

\* Lines 291-309 and 1555-1567: the new rows of contexts and context_state,
\* the latter without an active task.
InsertContextState(db, name) ==
    [InsertContext(db, name) EXCEPT
        !.active_task_id = [c \in ContextIds(db) \cup {NewContextId(db)} |->
                               IF c \in ContextIds(db) THEN @[c] ELSE NoId]]

\* Lines 1456-1499: _insert_tasks, n rows for a context: planned, not deleted,
\* numbered on from the highest task number of the context.
RECURSIVE InsertTasks(_, _, _)
InsertTasks(db, context_id, n) ==
    IF n = 0
    THEN db
    ELSE InsertTasks([db EXCEPT !.tasks = Append(@, TaskRow(context_id,
                                                     NextTaskNumber(db, context_id),
                                                     STATUS_PLANNED, 0))],
                     context_id, n - 1)

\* Lines 1580-1616: the tasks of the source context in the order of their task
\* numbers, inserted one by one for the new context: planned when reset,
\* is_deleted as it was.
RECURSIVE CopyTasks(_, _, _, _)
CopyTasks(db, source, new_context_id, reset) ==
    IF source = {}
    THEN db
    ELSE LET id == FirstByNumber(db, source)
             task == db.tasks[id]
         IN CopyTasks([db EXCEPT !.tasks = Append(@,
                            TaskRow(new_context_id, task.task_number,
                                    IF reset THEN STATUS_PLANNED ELSE task.status,
                                    task.is_deleted))],
                      source \ {id}, new_context_id, reset)

\* UPDATE tasks SET status = 'started' WHERE id = ? and UPDATE context_state
\* SET active_task_id = ? WHERE context_id = ?.
StartTask(db, context_id, task_id) ==
    [db EXCEPT !.tasks[task_id].status = STATUS_STARTED,
               !.active_task_id[context_id] = task_id]

\* The locals and the result of one call of a task function.
TaskCall(call, context_ref, task_number, task_id) ==
    [call |-> call, context_ref |-> context_ref, task_number |-> task_number,
     task_id |-> task_id]

\* A database with its contexts, their context_state rows and no task.
InitTasks ==
    /\ disk = [live |-> FileOf(TasksDb(InitContexts, << >>,
                                       [c \in {r.id : r \in InitContexts} |-> NoId])),
               tmp |-> NoFile,
               backups |-> [i \in Slots |-> NoFile], backup_dir |-> FALSE]
    /\ patches_dir = [exists |-> FALSE, files |-> {}]
    /\ args = [call |-> "tasks", current_version |-> 0, latest_version |-> 0]
    /\ pc = "tasks"
    /\ loc = TaskCall("none", 0, 0, NoId)
    /\ ap = InitAp
    /\ conns = [live |-> "on", tmp |-> "closed"]
    /\ outcome = NoOutcome
    /\ hist = InitHist(disk)

\* A failing call: the exception, the transaction rolled back.
TaskRaise(kind, call, context_ref, task_number) ==
    /\ outcome' = RawError(kind)
    /\ loc' = TaskCall(call, context_ref, task_number, NoId)
    /\ UNCHANGED disk

TaskError(call, context_ref, task_number) ==
    TaskRaise("ValueError", call, context_ref, task_number)

\* Lines 147-264: create_task for a top-level task (_orig_create_task, the
\* function behind create_step): the new row gets the next task number of the
\* context, the task that was active goes back to planned, the new one is
\* started and becomes the active task.
Task_Create ==
    /\ pc = "tasks"
    /\ \E context_ref \in ContextRefs :
         LET db == Content(disk.live)
             task_number == NextTaskNumber(db, context_ref)
             task_id == Len(db.tasks) + 1
             active_task_id == db.active_task_id[context_ref]
             inserted == InsertTasks(db, context_ref, 1)
             planned == IF active_task_id # NoId
                        THEN [inserted EXCEPT !.tasks[active_task_id].status = STATUS_PLANNED]
                        ELSE inserted
         IN IF ~KnownContext(db, context_ref)
            THEN TaskError("create_task", context_ref, 0)
            ELSE /\ task_id <= MaxTasks
                 /\ disk' = [disk EXCEPT !.live =
                                FileOf(StartTask(planned, context_ref, task_id))]
                 /\ outcome' = Success(0)
                 /\ loc' = TaskCall("create_task", context_ref, task_number, task_id)
    /\ UNCHANGED <<patches_dir, pc, args, ap, conns, hist>>

\* Lines 267-379: create_context (the public create_task of line 1724, with
\* steps for tasks), one transaction.  tasks: the number of initial tasks;
\* start_task_index: 0 for None.  A name the project has already is refused
\* by the unique index of db.py line 124.
Task_CreateContext ==
    /\ pc = "tasks"
    /\ \E name \in ContextNames, tasks \in 0..MaxTasks, set_active \in BOOLEAN,
          start_task_index \in 0..MaxTasks, auto_complete_first_task \in BOOLEAN :
         LET db == Content(disk.live)
             context_id == NewContextId(db)
             first_id == Len(db.tasks) + 1
             inserted == InsertTasks(InsertContextState(db, name), context_id, tasks)
             completed == IF auto_complete_first_task /\ tasks > 0
                          THEN [inserted EXCEPT !.tasks[first_id].status = STATUS_COMPLETE]
                          ELSE inserted
             active_id == IF start_task_index # 0 THEN first_id + start_task_index - 1
                          ELSE IF set_active /\ tasks > 0 THEN first_id
                          ELSE NoId
         IN IF name \in {c.name : c \in db.contexts}
            THEN TaskRaise("IntegrityError", "create_context", 0, 0)
            ELSE /\ Len(db.tasks) + tasks <= MaxTasks
                 /\ IF start_task_index > tasks
                    THEN TaskError("create_context", 0, 0)
                    ELSE /\ disk' = [disk EXCEPT !.live = FileOf(
                                        IF active_id # NoId
                                        THEN StartTask(completed, context_id, active_id)
                                        ELSE completed)]
                         /\ outcome' = Success(0)
                         /\ loc' = TaskCall("create_context", context_id, 0, active_id)
    /\ UNCHANGED <<patches_dir, pc, args, ap, conns, hist>>

\* Lines 382-476: switch_context (the public switch_task of line 1712), one
\* transaction: a context without an active task gets one, its first planned
\* task that is not deleted or else its last task that is not deleted; for a
\* context without such a task the call of create_task at line 433 reaches the
\* function of line 1724 with keywords it does not take (TypeError).
\* refused: the context is completed and the configuration does not allow to
\* reopen it.
Task_SwitchContext ==
    /\ pc = "tasks"
    /\ \E context_ref \in ContextRefs, refused \in BOOLEAN :
         LET db == Content(disk.live)
             planned == {i \in TasksOf(db, context_ref) :
                            /\ db.tasks[i].status = STATUS_PLANNED
                            /\ db.tasks[i].is_deleted = 0}
             alive == {i \in TasksOf(db, context_ref) : db.tasks[i].is_deleted = 0}
             task_row == IF planned # {} THEN FirstByNumber(db, planned)
                         ELSE IF alive # {} THEN LastByNumber(db, alive)
                         ELSE NoId
         IN IF ~KnownContext(db, context_ref) \/ refused
            THEN TaskError("switch_context", context_ref, 0)
            ELSE IF db.active_task_id[context_ref] # NoId
                 THEN /\ outcome' = Success(0)
                      /\ loc' = TaskCall("switch_context", context_ref, 0,
                                         db.active_task_id[context_ref])
                      /\ UNCHANGED disk
                 ELSE IF task_row = NoId
                      THEN TaskRaise("TypeError", "switch_context", context_ref, 0)
                      ELSE /\ disk' = [disk EXCEPT !.live =
                                          FileOf(StartTask(db, context_ref, task_row))]
                           /\ outcome' = Success(0)
                           /\ loc' = TaskCall("switch_context", context_ref, 0, task_row)
    /\ UNCHANGED <<patches_dir, pc, args, ap, conns, hist>>

\* Lines 1502-1689: adopt_context (the public adopt_task), as far as the tasks
\* go, one transaction: an unknown source and a taken target name raise
\* ValueError; otherwise a new context holds a copy of every task of the
\* source, and the first copy that is not deleted is started and active.
Task_AdoptContext ==
    /\ pc = "tasks"
    /\ \E source_name \in ContextRefs, new_name \in {NoName} \cup ContextNames,
          reset \in BOOLEAN :
         LET db == Content(disk.live)
             source_row == CHOOSE c \in db.contexts : c.id = source_name
             target_name == IF new_name # NoName THEN new_name ELSE source_row.name
             new_context_id == NewContextId(db)
             source_tasks == TasksOf(db, source_name)
             copied == CopyTasks(InsertContextState(db, target_name), source_tasks,
                                 new_context_id, reset)
             alive == {i \in TasksOf(copied, new_context_id) : copied.tasks[i].is_deleted = 0}
             first_task_id == IF alive = {} THEN NoId ELSE MinOf(alive)
         IN IF \/ ~KnownContext(db, source_name)
               \/ target_name \in {c.name : c \in db.contexts}
            THEN TaskError("adopt_context", source_name, 0)
            ELSE /\ Len(copied.tasks) <= MaxTasks
                 /\ disk' = [disk EXCEPT !.live = FileOf(
                                IF first_task_id # NoId
                                THEN StartTask(copied, new_context_id, first_task_id)
                                ELSE copied)]
                 /\ outcome' = Success(0)
                 /\ loc' = TaskCall("adopt_context", new_context_id, 0, first_task_id)
    /\ UNCHANGED <<patches_dir, pc, args, ap, conns, hist>>

\* Lines 478-530: switch_task (_orig_switch_task, the function behind
\* switch_step).  goal_and_plan: _check_goal_plan_required finds the notes it
\* asks for, or the configuration does not ask for them.
Task_Switch ==
    /\ pc = "tasks"
    /\ \E context_ref \in ContextRefs, task_number \in 1..MaxTasks, goal_and_plan \in BOOLEAN :
         LET db == Content(disk.live)
             target_task_id == TaskByNumber(db, context_ref, task_number)
         IN IF \/ ~KnownContext(db, context_ref)
               \/ target_task_id = NoId
               \/ db.tasks[target_task_id].is_deleted = 1
               \/ ~goal_and_plan
            THEN TaskError("switch_task", context_ref, task_number)
            ELSE /\ disk' = [disk EXCEPT !.live =
                                FileOf(StartTask(db, context_ref, target_task_id))]
                 /\ outcome' = Success(0)
                 /\ loc' = TaskCall("switch_task", context_ref, task_number, target_task_id)
    /\ UNCHANGED <<patches_dir, pc, args, ap, conns, hist>>

\* Lines 1072-1123: complete_task; the active task is left as it is.
Task_Complete ==
    /\ pc = "tasks"
    /\ \E context_ref \in ContextRefs, task_number \in 1..MaxTasks, goal_and_plan \in BOOLEAN :
         LET db == Content(disk.live)
             task_id == TaskByNumber(db, context_ref, task_number)
         IN IF \/ ~KnownContext(db, context_ref)
               \/ task_id = NoId
               \/ db.tasks[task_id].is_deleted = 1
               \/ ~goal_and_plan
            THEN TaskError("complete_task", context_ref, task_number)
            ELSE /\ disk' = [disk EXCEPT !.live =
                                FileOf([db EXCEPT !.tasks[task_id].status = STATUS_COMPLETE])]
                 /\ outcome' = Success(0)
                 /\ loc' = TaskCall("complete_task", context_ref, task_number, task_id)
    /\ UNCHANGED <<patches_dir, pc, args, ap, conns, hist>>

\* Lines 990-1069: delete_task sets is_deleted = 1; when the task was the
\* active one the replacement becomes active, or NULL when there is none.
Task_Delete ==
    /\ pc = "tasks"
    /\ \E context_ref \in ContextRefs, task_number \in 1..MaxTasks :
         LET db == Content(disk.live)
             task_id == TaskByNumber(db, context_ref, task_number)
             deleted == [db EXCEPT !.tasks[task_id].is_deleted = 1]
         IN IF \/ ~KnownContext(db, context_ref)
               \/ task_id = NoId
               \/ db.tasks[task_id].is_deleted = 1
            THEN TaskError("delete_task", context_ref, task_number)
            ELSE /\ disk' = [disk EXCEPT !.live = FileOf(
                                 IF db.active_task_id[context_ref] = task_id
                                 THEN [deleted EXCEPT !.active_task_id[context_ref] =
                                                          Replacement(deleted, context_ref)]
                                 ELSE deleted)]
                 /\ outcome' = Success(0)
                 /\ loc' = TaskCall("delete_task", context_ref, task_number, task_id)
    /\ UNCHANGED <<patches_dir, pc, args, ap, conns, hist>>

NextTasks ==
    \/ Task_Create
    \/ Task_CreateContext
    \/ Task_SwitchContext
    \/ Task_AdoptContext
    \/ Task_Switch
    \/ Task_Complete
    \/ Task_Delete

SpecTasks == InitTasks /\ [][NextTasks]_vars

\* C30: after any sequence of create_task, switch_task, complete_task and
\* delete_task (and of the context operations that write tasks), the active
\* task of every context is NULL or a task of that context that is not deleted.
C30_ActiveTaskNotDeleted ==
    args.call = "tasks" =>
        \A c \in ContextIds(Content(disk.live)) :
            LET db == Content(disk.live)
                active == db.active_task_id[c]
            IN active # NoId =>
                  /\ active \in TaskIds(db)
                  /\ db.tasks[active].context_id = c
                  /\ db.tasks[active].is_deleted = 0

\* The active task was deleted while another task of the context was alive:
\* the live one became the active task.
C30_ReplacedByLiveTask ==
    /\ args.call = "tasks"
    /\ loc.call = "delete_task"
    /\ outcome.kind = "success"
    /\ LET db == Content(disk.live)
       IN /\ db.active_task_id[loc.context_ref] \notin {NoId, loc.task_id}
          /\ db.tasks[db.active_task_id[loc.context_ref]].is_deleted = 0

\* switch_context gave a context without an active task its first planned
\* task.
C30_SwitchContextStartsPlanned ==
    /\ args.call = "tasks"
    /\ loc.call = "switch_context"
    /\ outcome.kind = "success"
    /\ loc.task_id # NoId
    /\ LET db == Content(disk.live)
       IN /\ db.active_task_id[loc.context_ref] = loc.task_id
          /\ Cardinality(TasksOf(db, loc.context_ref)) = 2

====
